---- MODULE Spec2Model ----
(***************************************************************************)
(* A model of selah's Bible reader core: the corpus held by Bible           *)
(* (src/app/utils/bible.py), its position navigator, its text search and   *)
(* its reference search.                                                    *)
(*                                                                          *)
(* A Python str is modelled as a sequence of one-character tokens.  The    *)
(* tokens are ASCII; the characters outside ASCII are written              *)
(*   "a~" (U+00E3)  "e'" (U+00E9)  "o'" (U+00F3)  "E^" (U+00CA)            *)
(*   "I." (U+0130, capital I with dot above)                               *)
(*   ".^" (U+0307, combining dot above).                                   *)
(* Python's None is the empty sequence and any other optional value v is   *)
(* the one-element sequence <<v>>.                                         *)
(***************************************************************************)
EXTENDS Integers, Sequences, FiniteSets, TLC

VARIABLES
    books,      \* Bible.books: the loaded corpus
    version,    \* Bible.version
    nav_call,   \* the last navigator call: its operation, argument and result
    find_call   \* the last search / search_by_reference call and its result

VARIABLES
    clock,              \* the wall clock read by time.time() and CURRENT_TIMESTAMP, in ticks
    chapters_read,      \* table chapters_read: its (book_abbrev, chapter_index) rows
    total_verses_read,  \* reading_stats.total_verses_read
    total_time_reading, \* reading_stats.total_time_reading
    session_start,      \* History._session_start
    marked,             \* the pairs passed to mark_chapter_read since the table was empty
    hist_call,          \* the last History call and its result
    favorites,          \* table favorites: its rows
    favorites_seq,      \* sqlite_sequence of favorites: the largest id ever given
    fav_call            \* the last favorites call of Database and its result

VARIABLES
    data_dir,           \* the translation files of Bible.data_dir, by version name
    load_call,          \* the last Bible.load call and its result
    playlist,           \* MusicPlayer.playlist
    current_index,      \* MusicPlayer.current_index
    shuffle,            \* MusicPlayer.shuffle
    music_is_playing,   \* MusicPlayer.is_playing
    mixer,              \* pygame.mixer.music: "none" (no mixer), "idle", "busy" or "paused"
    music_files,        \* the audio files of the music folder, as os.listdir gives them
    music_call,         \* the last MusicPlayer call and its result
    settings,           \* table settings: the JSON text of every stored key
    cache,              \* Config._cache
    legacy,             \* the legacy files settings.json and history.json of config_dir
    config_call,        \* the last Config / settings call and its result
    screen,             \* BibliaApp.current_screen: which screen it is
    reader,             \* the attributes of the ReaderScreen, None when there is none
    pending             \* the callbacks Tk holds for after(): not fired, not cancelled

bible_vars == <<books, version, nav_call, find_call>>

load_vars == <<data_dir, load_call>>

music_vars == <<playlist, current_index, shuffle, music_is_playing, mixer,
                music_files, music_call>>

config_vars == <<settings, cache, legacy, config_call>>

app_vars == <<screen, reader, pending>>

rest_vars == <<load_vars, music_vars, config_vars, app_vars>>

history_vars == <<chapters_read, total_verses_read, total_time_reading,
                  session_start, marked, hist_call>>

favorites_vars == <<favorites, favorites_seq, fav_call>>

vars == <<bible_vars, clock, history_vars, favorites_vars, rest_vars>>

-----------------------------------------------------------------------------
(* Bounds of the model. *)

MaxBooks == 2            \* books of a corpus
MaxChapters == 2         \* chapters of a book
MaxVerses == 2           \* verses of a chapter
MaxTotalChapters == 3    \* chapters of a corpus, all books together
MaxQueryLen == 2         \* characters of a search query
MaxTextLen == 3          \* characters of a verse, where every text is tried
MaxResults == 4          \* the largest max_results passed to search
MaxNumber == 3           \* the largest chapter or verse number of a reference

-----------------------------------------------------------------------------
(* Python values. *)

None == <<>>
Some(v) == <<v>>

max(a, b) == IF a >= b THEN a ELSE b

RECURSIVE SumSeq(_)
SumSeq(s) == IF s = <<>> THEN 0 ELSE s[1] + SumSeq(Tail(s))

-----------------------------------------------------------------------------
(* Python str operations, on sequences of one-character tokens. *)

(* str.lower() of one character. U+0130 lowers to two characters, "i" and  *)
(* U+0307; every other character lowers to one.                            *)
LowerTable ==
    ("I" :> <<"i">>) @@ ("I." :> <<"i", ".^">>) @@ ("J" :> <<"j">>) @@
    ("G" :> <<"g">>) @@ ("S" :> <<"s">>) @@ ("O" :> <<"o">>) @@
    ("L" :> <<"l">>) @@ ("X" :> <<"x">>) @@ ("E^" :> <<"e^">>)

LowerChar(c) == IF c \in DOMAIN LowerTable THEN LowerTable[c] ELSE <<c>>

(* str.upper() of one character. *)
UpperTable ==
    ("i" :> <<"I">>) @@ ("j" :> <<"J">>) @@ ("g" :> <<"G">>) @@
    ("s" :> <<"S">>) @@ ("o" :> <<"O">>) @@ ("l" :> <<"L">>) @@
    ("x" :> <<"X">>) @@ ("e^" :> <<"E^">>)

UpperChar(c) == IF c \in DOMAIN UpperTable THEN UpperTable[c] ELSE <<c>>

RECURSIVE lower(_)
lower(s) == IF s = <<>> THEN <<>> ELSE LowerChar(s[1]) \o lower(Tail(s))

RECURSIVE upper(_)
upper(s) == IF s = <<>> THEN <<>> ELSE UpperChar(s[1]) \o upper(Tail(s))

(* str.isspace() of one character: the blank is the whitespace character   *)
(* of the model's alphabets.                                               *)
IsSpace(c) == c = " "

IsDigit(c) == c \in {"0", "1", "2", "3", "4", "5", "6", "7", "8", "9"}

(* The regular expression class \w: letters, digits and the underscore.    *)
(* The colon, the asterisk, the blank and the combining mark U+0307 are    *)
(* not in it.                                                              *)
IsWord(c) == c \notin {" ", ":", "*", ".^"}

RECURSIVE lstrip(_)
lstrip(s) == IF s # <<>> /\ IsSpace(s[1]) THEN lstrip(Tail(s)) ELSE s

RECURSIVE rstrip(_)
rstrip(s) ==
    IF s # <<>> /\ IsSpace(s[Len(s)]) THEN rstrip(SubSeq(s, 1, Len(s) - 1)) ELSE s

strip(s) == rstrip(lstrip(s))

(* re.IGNORECASE on a literal: two characters match when their simple case *)
(* folding is the same; U+0130 folds to "i", one character.                *)
FoldChar(c) == IF c = "I." THEN "i" ELSE LowerChar(c)[1]

SameChar(a, b, ignore_case) ==
    IF ignore_case THEN FoldChar(a) = FoldChar(b) ELSE a = b

(* pat occurs in text at offset i (0-based) *)
MatchesAt(text, i, pat, ignore_case) ==
    /\ i + Len(pat) <= Len(text)
    /\ \A k \in 1..Len(pat) : SameChar(pat[k], text[i + k], ignore_case)

(* sub in text *)
Contains(sub, text) ==
    \E i \in 0..(Len(text) - Len(sub)) : MatchesAt(text, i, sub, FALSE)

(* text.startswith(prefix) *)
StartsWith(text, prefix) == MatchesAt(text, 0, prefix, FALSE)

Marked(m) == <<"*", "*">> \o m \o <<"*", "*">>

(* The left-to-right scan of str.replace and of Pattern.sub for a literal  *)
(* pattern that is not empty: every non-overlapping occurrence of pat,     *)
(* leftmost first, is replaced by the text matched between two markers.    *)
RECURSIVE MarkFrom(_, _, _, _)
MarkFrom(text, i, pat, ignore_case) ==
    IF i >= Len(text)
    THEN <<>>
    ELSE IF MatchesAt(text, i, pat, ignore_case)
    THEN Marked(SubSeq(text, i + 1, i + Len(pat)))
         \o MarkFrom(text, i + Len(pat), pat, ignore_case)
    ELSE <<text[i + 1]>> \o MarkFrom(text, i + 1, pat, ignore_case)

(* verse_text.replace(query, f"**{query}**") *)
highlight_case_sensitive(verse_text, query) == MarkFrom(verse_text, 0, query, FALSE)

(* re.compile(re.escape(query), re.IGNORECASE).sub(lambda m: f"**{m.group()}**", verse_text) *)
highlight_ignore_case(verse_text, query) == MarkFrom(verse_text, 0, query, TRUE)

(* str(n) for n >= 0 *)
RECURSIVE str(_)
str(n) ==
    LET digit == <<"0", "1", "2", "3", "4", "5", "6", "7", "8", "9">>[(n % 10) + 1]
    IN  IF n < 10 THEN <<digit>> ELSE str(n \div 10) \o <<digit>>

(* int(s) for a string of decimal digits *)
RECURSIVE int(_)
int(s) ==
    LET value(c) == CHOOSE d \in 0..9 : str(d) = <<c>>
    IN  IF s = <<>> THEN 0 ELSE 10 * int(SubSeq(s, 1, Len(s) - 1)) + value(s[Len(s)])

-----------------------------------------------------------------------------
(* Bible: the accessors. Indices are 0-based as in the source; TLA+         *)
(* sequences are 1-based.                                                   *)

get_book_count == Len(books)

get_book(index) ==
    IF 0 <= index /\ index < Len(books) THEN Some(books[index + 1]) ELSE None

get_book_abbrev(index) ==
    LET book == get_book(index)
    IN  IF book # None THEN book[1].abbrev ELSE <<>>

get_chapter_count(book_index) ==
    LET book == get_book(book_index)
    IN  IF book # None THEN Len(book[1].chapters) ELSE 0

get_chapter(book_index, chapter_index) ==
    LET book == get_book(book_index)
    IN  IF book # None
           /\ 0 <= chapter_index /\ chapter_index < Len(book[1].chapters)
        THEN book[1].chapters[chapter_index + 1]
        ELSE <<>>

get_verse(book_index, chapter_index, verse_index) ==
    LET chapter == get_chapter(book_index, chapter_index)
    IN  IF 0 <= verse_index /\ verse_index < Len(chapter)
        THEN chapter[verse_index + 1]
        ELSE <<>>

get_verse_count(book_index, chapter_index) ==
    Len(get_chapter(book_index, chapter_index))

-----------------------------------------------------------------------------
(* Bible: the position navigator. *)

get_next_position_no_chapter_step(book_index, chapter_index, verse_index) ==
    LET verse_count == get_verse_count(book_index, chapter_index)
    IN  IF verse_index + 1 < verse_count
        THEN <<book_index, chapter_index, verse_index + 1, FALSE>>
        ELSE IF book_index + 1 < Len(books)
        THEN <<book_index + 1, 0, 0, FALSE>>
        ELSE <<book_index, chapter_index, verse_index, TRUE>>

get_next_position(book_index, chapter_index, verse_index) ==
    LET verse_count == get_verse_count(book_index, chapter_index)
        chapter_count == get_chapter_count(book_index)
    IN  IF verse_index + 1 < verse_count
        THEN <<book_index, chapter_index, verse_index + 1, FALSE>>
        ELSE IF chapter_index + 1 < chapter_count
        THEN <<book_index, chapter_index + 1, 0, FALSE>>
        ELSE IF book_index + 1 < Len(books)
        THEN <<book_index + 1, 0, 0, FALSE>>
        ELSE <<book_index, chapter_index, verse_index, TRUE>>

get_previous_position_first_verse(book_index, chapter_index, verse_index) ==
    IF verse_index > 0
    THEN <<book_index, chapter_index, verse_index - 1, FALSE>>
    ELSE IF chapter_index > 0
    THEN <<book_index, chapter_index - 1, 0, FALSE>>
    ELSE IF book_index > 0
    THEN <<book_index - 1, max(0, get_chapter_count(book_index - 1) - 1), 0, FALSE>>
    ELSE <<0, 0, 0, TRUE>>

get_previous_position_unclamped(book_index, chapter_index, verse_index) ==
    IF verse_index > 0
    THEN <<book_index, chapter_index, verse_index - 1, FALSE>>
    ELSE IF chapter_index > 0
    THEN <<book_index, chapter_index - 1,
           get_verse_count(book_index, chapter_index - 1) - 1, FALSE>>
    ELSE IF book_index > 0
    THEN <<book_index - 1, get_chapter_count(book_index - 1) - 1,
           get_verse_count(book_index - 1, get_chapter_count(book_index - 1) - 1) - 1,
           FALSE>>
    ELSE <<0, 0, 0, TRUE>>

get_previous_position(book_index, chapter_index, verse_index) ==
    IF verse_index > 0
    THEN <<book_index, chapter_index, verse_index - 1, FALSE>>
    ELSE IF chapter_index > 0
    THEN LET new_chapter == chapter_index - 1
             last_verse == get_verse_count(book_index, new_chapter) - 1
         IN  <<book_index, new_chapter, max(0, last_verse), FALSE>>
    ELSE IF book_index > 0
    THEN LET new_book == book_index - 1
             last_chapter == get_chapter_count(new_book) - 1
             last_verse == get_verse_count(new_book, last_chapter) - 1
         IN  <<new_book, max(0, last_chapter), max(0, last_verse), FALSE>>
    ELSE <<0, 0, 0, TRUE>>

-----------------------------------------------------------------------------
(* BOOK_NAMES, in the order of the source: the entries of the books the    *)
(* model's corpora hold. Each is <<abbreviation, full name>>.              *)

BOOK_NAMES ==
    << << <<"g", "n">>,      <<"G", "e^", "n", "e", "s", "i", "s">> >>,
       << <<"e", "x">>,      <<"E^", "x", "o", "d", "o">> >>,
       << <<"j", "s">>,      <<"J", "o", "s", "u", "e'">> >>,
       << <<"j", "l">>,      <<"J", "o", "e", "l">> >>,
       << <<"j", "o">>,      <<"J", "o", "a~", "o">> >>,
       << <<"1", "j", "o">>, <<"1", " ", "J", "o", "a~", "o">> >> >>

(* BOOK_NAMES.get(abbrev, default) *)
BOOK_NAMES_get(abbrev, default) ==
    IF \E k \in 1..Len(BOOK_NAMES) : BOOK_NAMES[k][1] = abbrev
    THEN BOOK_NAMES[CHOOSE k \in 1..Len(BOOK_NAMES) : BOOK_NAMES[k][1] = abbrev][2]
    ELSE default

get_book_name(index) ==
    LET book == get_book(index)
    IN  IF book # None
        THEN BOOK_NAMES_get(book[1].abbrev, upper(book[1].abbrev))
        ELSE <<>>

get_reference(book_index, chapter_index, verse_index) ==
    get_book_name(book_index) \o <<" ">> \o str(chapter_index + 1)
        \o <<":">> \o str(verse_index + 1)

-----------------------------------------------------------------------------
(* Bible.search: the three nested loops, each leaving as soon as the       *)
(* results number max_results.                                             *)

search_is_blank_empty_only(query) == query = <<>>

(* not query or not query.strip() *)
search_is_blank(query) == query = <<>> \/ strip(query) = <<>>

search_highlight(verse_text, query, case_sensitive) ==
    IF case_sensitive
    THEN highlight_case_sensitive(verse_text, query)
    ELSE highlight_ignore_case(verse_text, query)

(* search_query in text_to_search *)
search_matches(verse_text, query, case_sensitive) ==
    LET search_query == IF case_sensitive THEN query ELSE lower(query)
        text_to_search == IF case_sensitive THEN verse_text ELSE lower(verse_text)
    IN  Contains(search_query, text_to_search)

search_entry(query, case_sensitive, book_idx, chapter_idx, verse_idx, verse_text) ==
    [ book_index    |-> book_idx,
      chapter_index |-> chapter_idx,
      verse_index   |-> verse_idx,
      verse_text    |-> verse_text,
      reference     |-> get_reference(book_idx, chapter_idx, verse_idx),
      highlight     |-> search_highlight(verse_text, query, case_sensitive) ]

search_full_no_limit(results, max_results) == FALSE

(* len(results) >= max_results *)
search_full(results, max_results) == Len(results) >= max_results

RECURSIVE search_verses(_, _, _, _, _, _, _)
search_verses(query, max_results, case_sensitive, book_idx, chapter_idx, verse_idx, results) ==
    LET verses == books[book_idx + 1].chapters[chapter_idx + 1]
    IN  IF verse_idx >= Len(verses) \/ search_full(results, max_results)
        THEN results
        ELSE LET verse_text == verses[verse_idx + 1]
                 found == search_matches(verse_text, query, case_sensitive)
                 entry == search_entry(query, case_sensitive,
                                       book_idx, chapter_idx, verse_idx, verse_text)
             IN  search_verses(query, max_results, case_sensitive,
                               book_idx, chapter_idx, verse_idx + 1,
                               IF found THEN Append(results, entry) ELSE results)

RECURSIVE search_chapters(_, _, _, _, _, _)
search_chapters(query, max_results, case_sensitive, book_idx, chapter_idx, results) ==
    IF chapter_idx >= Len(books[book_idx + 1].chapters)
       \/ search_full(results, max_results)
    THEN results
    ELSE search_chapters(query, max_results, case_sensitive, book_idx, chapter_idx + 1,
                         search_verses(query, max_results, case_sensitive,
                                       book_idx, chapter_idx, 0, results))

RECURSIVE search_books(_, _, _, _, _)
search_books(query, max_results, case_sensitive, book_idx, results) ==
    IF book_idx >= Len(books) \/ search_full(results, max_results)
    THEN results
    ELSE search_books(query, max_results, case_sensitive, book_idx + 1,
                      search_chapters(query, max_results, case_sensitive,
                                      book_idx, 0, results))

search(query, max_results, case_sensitive) ==
    IF search_is_blank(query)
    THEN <<>>
    ELSE search_books(query, max_results, case_sensitive, 0, <<>>)

-----------------------------------------------------------------------------
(* Bible._find_book_index *)

(* for idx, book in enumerate(self.books):                                 *)
(*     if book.get("abbrev", "").lower() == abbrev: return idx             *)
first_book_with_abbrev(abbrev) ==
    LET found == { idx \in 0..(Len(books) - 1) : lower(books[idx + 1].abbrev) = abbrev }
    IN  IF found = {}
        THEN None
        ELSE Some(CHOOSE idx \in found : \A other \in found : idx <= other)

(* for abbrev, full_name in BOOK_NAMES.items(): the first entry, from      *)
(* entry k on, whose full name fits and whose book is in the corpus.       *)
RECURSIVE find_by_full_name(_, _, _)
find_by_full_name(name_lower, prefix, k) ==
    IF k > Len(BOOK_NAMES)
    THEN None
    ELSE LET abbrev == BOOK_NAMES[k][1]
             full_name == lower(BOOK_NAMES[k][2])
             fits == IF prefix THEN StartsWith(full_name, name_lower)
                               ELSE full_name = name_lower
         IN  IF fits /\ first_book_with_abbrev(abbrev) # None
             THEN first_book_with_abbrev(abbrev)
             ELSE find_by_full_name(name_lower, prefix, k + 1)

find_book_index_prefix_first(name) ==
    LET name_lower == strip(lower(name))
    IN  IF find_by_full_name(name_lower, TRUE, 1) # None
        THEN find_by_full_name(name_lower, TRUE, 1)
        ELSE IF first_book_with_abbrev(name_lower) # None
        THEN first_book_with_abbrev(name_lower)
        ELSE find_by_full_name(name_lower, FALSE, 1)

find_book_index(name) ==
    LET name_lower == strip(lower(name))
    IN  IF first_book_with_abbrev(name_lower) # None
        THEN first_book_with_abbrev(name_lower)
        ELSE IF find_by_full_name(name_lower, FALSE, 1) # None
        THEN find_by_full_name(name_lower, FALSE, 1)
        ELSE find_by_full_name(name_lower, TRUE, 1)

-----------------------------------------------------------------------------
(* Bible.search_by_reference *)

AllOf(s, from, to, digits) ==
    \A k \in from..to : IF digits THEN IsDigit(s[k]) ELSE IsSpace(s[k])

(* The group (\d?\s*\w+): an optional digit, whitespace, then one or more  *)
(* word characters.                                                        *)
IsBookGroup(g) ==
    \E a \in 0..1 :
        \E b \in a..(Len(g) - 1) :
            /\ \A k \in 1..a : IsDigit(g[k])
            /\ \A k \in (a + 1)..b : IsSpace(g[k])
            /\ \A k \in (b + 1)..Len(g) : IsWord(g[k])

(* The tail \s+(\d+)$ of both patterns, on s[1..last]: the digits are the  *)
(* run that ends at last and starts after a whitespace character, the      *)
(* whitespace is the run before it, and the group is what is left.         *)
(* Some(<<group, digits>>) or None.                                        *)
match_book_and_number(s, last) ==
    LET starts == { j \in 2..last : AllOf(s, j, last, TRUE) /\ IsSpace(s[j - 1]) }
        j == CHOOSE start \in starts : TRUE
        ends == { i \in 1..(j - 2) : AllOf(s, i + 1, j - 1, FALSE) /\ ~IsSpace(s[i]) }
        i == CHOOSE end \in ends : TRUE
    IN  IF starts = {} THEN None
        ELSE IF ends = {} THEN None
        ELSE IF ~IsBookGroup(SubSeq(s, 1, i)) THEN None
        ELSE Some(<<SubSeq(s, 1, i), SubSeq(s, j, last)>>)

(* re.match(r"^(\d?\s*\w+)\s+(\d+):(\d+)$", s): Some(groups) or None *)
match_book_chapter_verse(s) ==
    LET colons == { k \in 2..(Len(s) - 1) : s[k] = ":" /\ AllOf(s, k + 1, Len(s), TRUE) }
        k == CHOOSE colon \in colons : TRUE
        head == match_book_and_number(s, k - 1)
    IN  IF colons = {} THEN None
        ELSE IF head = None THEN None
        ELSE Some(<<head[1][1], head[1][2], SubSeq(s, k + 1, Len(s))>>)

(* re.match(r"^(\d?\s*\w+)\s+(\d+)$", s): Some(groups) or None *)
match_book_chapter(s) == match_book_and_number(s, Len(s))

reference_entry(book_idx, chapter_num, verse_num) ==
    [ book_index    |-> book_idx,
      chapter_index |-> chapter_num,
      verse_index   |-> verse_num,
      verse_text    |-> get_verse(book_idx, chapter_num, verse_num),
      reference     |-> get_reference(book_idx, chapter_num, verse_num) ]

chapter_in_range_from_one(chapter_num, book_idx) ==
    ~(chapter_num < 0 \/ chapter_num > get_chapter_count(book_idx))

(* not (chapter_num < 0 or chapter_num >= self.get_chapter_count(book_idx)) *)
chapter_in_range(chapter_num, book_idx) ==
    ~(chapter_num < 0 \/ chapter_num >= get_chapter_count(book_idx))

(* The body of the loop over the patterns, for the groups of a match. *)
search_by_groups(groups) ==
    LET book_name == lower(strip(groups[1]))
        chapter_num == int(groups[2]) - 1
        verse_num == IF Len(groups) > 2 THEN Some(int(groups[3]) - 1) ELSE None
        book_idx == find_book_index(book_name)
    IN  IF book_idx = None
        THEN None
        ELSE IF ~chapter_in_range(chapter_num, book_idx[1])
        THEN None
        ELSE IF verse_num # None
        THEN IF verse_num[1] < 0
                \/ verse_num[1] >= get_verse_count(book_idx[1], chapter_num)
             THEN None
             ELSE Some(reference_entry(book_idx[1], chapter_num, verse_num[1]))
        ELSE Some(reference_entry(book_idx[1], chapter_num, 0))

search_by_reference(reference) ==
    LET stripped == strip(reference)
        full == match_book_chapter_verse(stripped)
        chapter_only == match_book_chapter(stripped)
    IN  IF full # None THEN search_by_groups(full[1])
        ELSE IF chapter_only # None THEN search_by_groups(chapter_only[1])
        ELSE None

-----------------------------------------------------------------------------
(* The corpora of the navigator's specification: every shape within the    *)
(* bounds, a chapter with no verse and a book with no chapter included.    *)
(* Book i carries the i-th abbreviation of AbbrevOrder and every verse the *)
(* same text.                                                              *)

AbbrevOrder == << <<"g", "n">>, <<"j", "o">>, <<"j", "s">>, <<"j", "l">> >>

FillerVerse == <<"i">>

ChapterCountVectors ==
    { cc \in UNION { [1..n -> 0..MaxChapters] : n \in 0..MaxBooks } :
        SumSeq(cc) <= MaxTotalChapters }

ChaptersBefore(cc, b) == SumSeq(SubSeq(cc, 1, b - 1))

MakeCorpus(cc, vv) ==
    [ b \in 1..Len(cc) |->
        [ abbrev   |-> AbbrevOrder[((b - 1) % Len(AbbrevOrder)) + 1],
          chapters |-> [ c \in 1..cc[b] |->
                          [ v \in 1..vv[ChaptersBefore(cc, b) + c] |-> FillerVerse ] ] ] ]

NavCorpora ==
    UNION { { MakeCorpus(cc, vv) : vv \in [1..SumSeq(cc) -> 0..MaxVerses] } :
            cc \in ChapterCountVectors }

(* A position is valid when each index is in range for its level. *)
ValidPosition(p) ==
    /\ 0 <= p[1] /\ p[1] < Len(books)
    /\ 0 <= p[2] /\ p[2] < Len(books[p[1] + 1].chapters)
    /\ 0 <= p[3] /\ p[3] < Len(books[p[1] + 1].chapters[p[2] + 1])

ValidPositions ==
    UNION { UNION { { <<b - 1, c - 1, v - 1>> : v \in 1..Len(books[b].chapters[c]) } :
                    c \in 1..Len(books[b].chapters) } :
            b \in 1..Len(books) }

Triple(r) == <<r[1], r[2], r[3]>>

NoCall == [op |-> "none"]

(* A Bible with no data directory read, a MusicPlayer with no folder, a    *)
(* Config that was not loaded and no screen.                               *)
LoadIdle ==
    /\ data_dir = <<>>
    /\ load_call = NoCall

MusicIdle ==
    /\ playlist = <<>>
    /\ current_index = 0
    /\ shuffle = TRUE
    /\ music_is_playing = FALSE
    /\ mixer = "idle"
    /\ music_files = <<>>
    /\ music_call = NoCall

ConfigIdle ==
    /\ settings = <<>>
    /\ cache = <<>>
    /\ legacy = <<>>
    /\ config_call = NoCall

AppIdle ==
    /\ screen = "none"
    /\ reader = None
    /\ pending = {}

RestIdle ==
    /\ LoadIdle
    /\ MusicIdle
    /\ ConfigIdle
    /\ AppIdle

(* A store that nobody has written to or called: Database._init_database   *)
(* on a new file, and History.__init__.                                    *)
StoreEmpty ==
    /\ clock = 0
    /\ chapters_read = {}
    /\ total_verses_read = 0
    /\ total_time_reading = 0
    /\ session_start = None
    /\ marked = <<>>
    /\ hist_call = NoCall
    /\ favorites = {}
    /\ favorites_seq = 0
    /\ fav_call = NoCall

StoreIdle ==
    /\ StoreEmpty
    /\ RestIdle

(* What a call on position p remembers of the call before it, when p is   *)
(* the position that call returned: its operation and its flag.            *)
Before(p) ==
    IF nav_call.op # "none" /\ p = Triple(nav_call.ret)
    THEN Some(<<nav_call.op, nav_call.ret[4]>>)
    ELSE None

(* The positions a caller holds: a valid one, or the one the navigator     *)
(* returned last (src/app/screens/reader.py keeps the returned triple).    *)
CallerPositions ==
    ValidPositions \cup
    (IF nav_call.op = "none" THEN {} ELSE {Triple(nav_call.ret)})

-----------------------------------------------------------------------------
(* The navigator's specification. *)

Init ==
    /\ books \in NavCorpora
    /\ version = "acf"
    /\ nav_call = NoCall
    /\ find_call = NoCall
    /\ StoreIdle

NextPosition ==
    \E p \in CallerPositions :
        /\ nav_call' = [op |-> "next", arg |-> p, after |-> Before(p),
                        ret |-> get_next_position(p[1], p[2], p[3])]
        /\ UNCHANGED <<books, version, find_call, clock, history_vars, favorites_vars,
                   rest_vars>>

PreviousPosition ==
    \E p \in CallerPositions :
        /\ nav_call' = [op |-> "previous", arg |-> p, after |-> Before(p),
                        ret |-> get_previous_position(p[1], p[2], p[3])]
        /\ UNCHANGED <<books, version, find_call, clock, history_vars, favorites_vars,
                   rest_vars>>

Next == NextPosition \/ PreviousPosition

Spec == Init /\ [][Next]_vars

-----------------------------------------------------------------------------
(* The text search's specification. The corpus is either a single verse    *)
(* holding any text within the bounds, or the four verses of SearchShape,  *)
(* each holding a text of VersePool.                                       *)

SearchChars == {"I", "i", "I.", ".^", " ", "*"}

Strings(chars, n) == UNION { [1..k -> chars] : k \in 0..n }

VersePool == { <<"i">>, <<"I", "*">>, <<" ">> }

SearchShape(t) ==
    << [abbrev |-> <<"g", "n">>, chapters |-> << <<t[1], t[2]>>, <<t[3]>> >>],
       [abbrev |-> <<"j", "o">>, chapters |-> << <<>>, <<t[4]>> >>] >>

SingleVerse(text) ==
    << [abbrev |-> <<"g", "n">>, chapters |-> << <<text>> >>] >>

SearchCorpora ==
    { SingleVerse(text) : text \in Strings(SearchChars, MaxTextLen) }
    \cup { SearchShape(t) : t \in [1..4 -> VersePool] }

TotalVerses ==
    SumSeq([b \in 1..Len(books) |->
              SumSeq([c \in 1..Len(books[b].chapters) |-> Len(books[b].chapters[c])])])

min(a, b) == IF a <= b THEN a ELSE b

InitSearch ==
    /\ books \in SearchCorpora
    /\ version = "acf"
    /\ nav_call = NoCall
    /\ find_call = NoCall
    /\ StoreIdle

(* SearchScreen._do_search: the results of the search before are cleared,  *)
(* then the query is searched.                                             *)
Search ==
    /\ find_call.op = "none"
    /\ \E query \in Strings(SearchChars, MaxQueryLen),
          max_results \in (-1)..min(MaxResults, TotalVerses + 1),
          case_sensitive \in BOOLEAN :
            find_call' = [op |-> "search", query |-> query,
                          max_results |-> max_results,
                          case_sensitive |-> case_sensitive,
                          ret |-> search(query, max_results, case_sensitive)]
    /\ UNCHANGED <<books, version, nav_call, clock, history_vars, favorites_vars,
                   rest_vars>>

ClearResults ==
    /\ find_call.op # "none"
    /\ find_call' = NoCall
    /\ UNCHANGED <<books, version, nav_call, clock, history_vars, favorites_vars,
                   rest_vars>>

NextSearch == Search \/ ClearResults

SpecSearch == InitSearch /\ [][NextSearch]_vars

-----------------------------------------------------------------------------
(* The reference search's specification. A corpus is a sequence of books   *)
(* of RefBooks; a reference is put together from a book name, a separator, *)
(* chapter digits and a tail, well formed or not.                          *)

RefBooks ==
    { [abbrev |-> <<"j", "o">>,      chapters |-> << << <<"a">>, <<"b">> >>, <<>> >>],
      [abbrev |-> <<"j", "s">>,      chapters |-> << << <<"c">> >> >>],
      [abbrev |-> <<"J", "L">>,      chapters |-> << << <<"d">> >> >>],
      [abbrev |-> <<"1", "j", "o">>, chapters |-> << << <<"e">> >>, << <<"f">>, <<"g">> >> >>],
      [abbrev |-> <<"x", "x">>,      chapters |-> <<>>] }

RefCorpora == UNION { [1..n -> RefBooks] : n \in 0..MaxBooks }

NameInputs ==
    { <<>>, <<"j", "o">>, <<"J", "O">>, <<"j">>, <<"J", "o", "a~", "o">>,
      <<"J", "o", "e">>, <<"j", "s">>, <<"1", " ", "J", "o", "a~", "o">>,
      <<"1", "j", "o">>, <<"1">>, <<"x", "x">>, <<"j", "o", " ", "s">> }

SeparatorInputs == { <<>>, <<" ">>, <<" ", " ">> }

NumberInputs == { str(n) : n \in 0..MaxNumber } \cup { <<"0", "1">> }

ChapterInputs == { <<>> } \cup NumberInputs

TailInputs ==
    { <<>>, <<":">>, <<" ", ":", "1">>, <<":", " ", "1">>, <<":", "1", ":", "1">> }
    \cup { <<":">> \o d : d \in NumberInputs }

Padded(s, padded) == IF padded THEN <<" ">> \o s \o <<" ">> ELSE s

InitRef ==
    /\ books \in RefCorpora
    /\ version = "acf"
    /\ nav_call = NoCall
    /\ find_call = NoCall
    /\ StoreIdle

(* SearchScreen._do_search: the query is first tried as a reference. *)
SearchByReference ==
    /\ find_call.op = "none"
    /\ \E name \in NameInputs, separator \in SeparatorInputs,
          chapter \in ChapterInputs, tail \in TailInputs, padded \in BOOLEAN :
            LET reference == Padded(name \o separator \o chapter \o tail, padded)
            IN  find_call' = [op |-> "search_by_reference",
                              name |-> name, separator |-> separator,
                              chapter |-> chapter, tail |-> tail,
                              reference |-> reference,
                              ret |-> search_by_reference(reference)]
    /\ UNCHANGED <<books, version, nav_call, clock, history_vars, favorites_vars,
                   rest_vars>>

FindBookIndex ==
    /\ find_call.op = "none"
    /\ \E name \in NameInputs, padded \in BOOLEAN :
            find_call' = [op |-> "find_book_index", name |-> Padded(name, padded),
                          ret |-> find_book_index(Padded(name, padded))]
    /\ UNCHANGED <<books, version, nav_call, clock, history_vars, favorites_vars,
                   rest_vars>>

NextRef == SearchByReference \/ FindBookIndex \/ ClearResults

SpecRef == InitRef /\ [][NextRef]_vars

-----------------------------------------------------------------------------
(* The navigator's properties. The counts below are read from the corpus   *)
(* itself, not through the accessors.                                      *)

BookTotal == Len(books)
ChapterTotal(b) == Len(books[b + 1].chapters)
VerseTotal(b, c) == Len(books[b + 1].chapters[c + 1])

IsLastPosition(p) ==
    /\ p[1] = BookTotal - 1
    /\ p[2] = ChapterTotal(p[1]) - 1
    /\ p[3] = VerseTotal(p[1], p[2]) - 1

(* C1: for every valid position other than the last verse of the last      *)
(* chapter of the last book, get_previous_position applied to the triple   *)
(* get_next_position returns gives the position back, with is_start False. *)
C1_PreviousUndoesNext ==
    \A p \in ValidPositions :
        ~IsLastPosition(p) =>
            LET n == get_next_position(p[1], p[2], p[3])
            IN  get_previous_position(n[1], n[2], n[3]) = <<p[1], p[2], p[3], FALSE>>

(* C1's case: previous was called on what next returned for a position in  *)
(* another book, and gave that position back.                              *)
C1_Witness ==
    /\ nav_call.op = "previous"
    /\ nav_call.after # None
    /\ nav_call.after[1] = <<"next", FALSE>>
    /\ nav_call.ret[1] # nav_call.arg[1]
    /\ nav_call.ret[4] = FALSE
    /\ ValidPosition(Triple(nav_call.ret))
    /\ Triple(get_next_position(nav_call.ret[1], nav_call.ret[2], nav_call.ret[3]))
         = nav_call.arg

(* C2: on a valid position get_next_position follows the rule verse + 1,   *)
(* else chapter + 1, else book + 1, else the same position with is_end     *)
(* True; called again on that last result it returns it again.             *)
C2_NextRule ==
    \A p \in ValidPositions :
        LET b == p[1]
            c == p[2]
            v == p[3]
            r == get_next_position(b, c, v)
            inChapter == v + 1 < VerseTotal(b, c)
            inBook == c + 1 < ChapterTotal(b)
            inCorpus == b + 1 < BookTotal
        IN  /\ inChapter => r = <<b, c, v + 1, FALSE>>
            /\ (~inChapter /\ inBook) => r = <<b, c + 1, 0, FALSE>>
            /\ (~inChapter /\ ~inBook /\ inCorpus) => r = <<b + 1, 0, 0, FALSE>>
            /\ (~inChapter /\ ~inBook /\ ~inCorpus) =>
                   /\ r = <<b, c, v, TRUE>>
                   /\ get_next_position(r[1], r[2], r[3]) = r

(* C2's case: next was called on the final verse, returned is_end, and was *)
(* called again on its own result.                                         *)
C2_Witness ==
    /\ nav_call.op = "next"
    /\ nav_call.after # None
    /\ nav_call.after[1] = <<"next", TRUE>>
    /\ ValidPosition(nav_call.arg)
    /\ IsLastPosition(nav_call.arg)
    /\ nav_call.ret = <<nav_call.arg[1], nav_call.arg[2], nav_call.arg[3], TRUE>>

(* C3: on a valid position get_previous_position follows the rule          *)
(* verse - 1, else the last verse of the chapter before, else the last     *)
(* verse of the last chapter of the book before, else (0, 0, 0) with       *)
(* is_start True; is_start is True only for the input (0, 0, 0) and no     *)
(* index goes below 0. Where the chapter or book before is empty, and so   *)
(* has no last verse or chapter, the index returned is one that is >= 0.   *)
C3_PreviousRule ==
    \A p \in ValidPositions :
        LET b == p[1]
            c == p[2]
            v == p[3]
            r == get_previous_position(b, c, v)
        IN  /\ v > 0 => r = <<b, c, v - 1, FALSE>>
            /\ (v = 0 /\ c > 0) =>
                   /\ r[1] = b /\ r[2] = c - 1 /\ r[4] = FALSE
                   /\ IF VerseTotal(b, c - 1) > 0
                      THEN r[3] = VerseTotal(b, c - 1) - 1
                      ELSE r[3] >= 0
            /\ (v = 0 /\ c = 0 /\ b > 0) =>
                   /\ r[1] = b - 1 /\ r[4] = FALSE
                   /\ IF ChapterTotal(b - 1) > 0
                      THEN /\ r[2] = ChapterTotal(b - 1) - 1
                           /\ IF VerseTotal(b - 1, r[2]) > 0
                              THEN r[3] = VerseTotal(b - 1, r[2]) - 1
                              ELSE r[3] >= 0
                      ELSE r[2] >= 0 /\ r[3] >= 0
            /\ (v = 0 /\ c = 0 /\ b = 0) => r = <<0, 0, 0, TRUE>>
            /\ r[4] = TRUE => p = <<0, 0, 0>>

(* C3's case: previous was called on the first verse of a book that is not *)
(* the first and returned the last verse of the book before.               *)
C3_Witness ==
    /\ nav_call.op = "previous"
    /\ ValidPosition(nav_call.arg)
    /\ nav_call.arg[1] > 0 /\ nav_call.arg[2] = 0 /\ nav_call.arg[3] = 0
    /\ nav_call.ret[1] = nav_call.arg[1] - 1
    /\ nav_call.ret[2] > 0 /\ nav_call.ret[3] > 0
    /\ nav_call.ret[4] = FALSE

(* C4: called on a valid position, get_next_position and                   *)
(* get_previous_position each return a valid position, whatever the shape  *)
(* of the corpus (empty chapters and empty books included).                *)
C4_NavigatorReturnsValid ==
    (nav_call.op # "none" /\ ValidPosition(nav_call.arg)) =>
        ValidPosition(Triple(nav_call.ret))

(* What does hold of C4 on every corpus: no index returned is negative.    *)
C4_NoNegativeIndex ==
    (nav_call.op # "none" /\ ValidPosition(nav_call.arg)) =>
        (nav_call.ret[1] >= 0 /\ nav_call.ret[2] >= 0 /\ nav_call.ret[3] >= 0)

-----------------------------------------------------------------------------
(* The text search's properties. *)

IsBlank(query) == \A k \in 1..Len(query) : query[k] = " "

VerseAt(p) == books[p[1] + 1].chapters[p[2] + 1][p[3] + 1]

(* The verses that contain the query, both sides lowercased unless the     *)
(* search is case sensitive.                                               *)
Matching(query, case_sensitive) ==
    { p \in ValidPositions :
        IF case_sensitive
        THEN Contains(query, VerseAt(p))
        ELSE Contains(lower(query), lower(VerseAt(p))) }

(* Corpus order: book, then chapter, then verse. *)
Precedes(p, q) ==
    \/ p[1] < q[1]
    \/ p[1] = q[1] /\ p[2] < q[2]
    \/ p[1] = q[1] /\ p[2] = q[2] /\ p[3] < q[3]

PositionOf(entry) == <<entry.book_index, entry.chapter_index, entry.verse_index>>

(* C5: search returns an empty list whenever the query is empty or holds   *)
(* only whitespace, for every corpus, max_results and case_sensitive.      *)
C5_BlankQueryFindsNothing ==
    (find_call.op = "search" /\ IsBlank(find_call.query)) => find_call.ret = <<>>

(* C5's case: a query of blanks was searched in a corpus that has a verse  *)
(* holding those blanks, with room for results, and nothing was returned.  *)
C5_Witness ==
    /\ find_call.op = "search"
    /\ find_call.query = <<" ", " ">>
    /\ find_call.max_results >= 1
    /\ \E p \in ValidPositions : Contains(find_call.query, VerseAt(p))
    /\ find_call.ret = <<>>

(* C6: for a query that is not blank, search returns exactly the first     *)
(* min(max_results, M) matching verses in corpus order, strictly           *)
(* increasing, each entry addressing its verse; none when max_results <= 0.*)
C6_FirstMatchesInOrder ==
    (find_call.op = "search" /\ ~IsBlank(find_call.query)) =>
        LET ret == find_call.ret
            M == Matching(find_call.query, find_call.case_sensitive)
        IN  /\ Len(ret) = max(0, min(find_call.max_results, Cardinality(M)))
            /\ \A k \in 1..Len(ret) :
                   /\ PositionOf(ret[k]) \in M
                   /\ ret[k].verse_text = VerseAt(PositionOf(ret[k]))
            /\ \A k \in 1..(Len(ret) - 1) :
                   Precedes(PositionOf(ret[k]), PositionOf(ret[k + 1]))
            /\ \A p \in M :
                   \/ \E k \in 1..Len(ret) : PositionOf(ret[k]) = p
                   \/ \A k \in 1..Len(ret) : Precedes(PositionOf(ret[k]), p)

(* C6's case: more verses match than max_results allows, in both books,    *)
(* and the search returned the first max_results of them.                  *)
C6_Witness ==
    /\ find_call.op = "search"
    /\ find_call.max_results = 2
    /\ Len(find_call.ret) = 2
    /\ Cardinality(Matching(find_call.query, find_call.case_sensitive)) = 4
    /\ find_call.case_sensitive = FALSE
    /\ PositionOf(find_call.ret[2]) = <<0, 0, 1>>

(* highlight.replace("**", ""): the markers deleted, leftmost first. *)
RECURSIVE Unmarked(_)
Unmarked(h) ==
    IF Len(h) >= 2 /\ h[1] = "*" /\ h[2] = "*"
    THEN Unmarked(SubSeq(h, 3, Len(h)))
    ELSE IF h = <<>> THEN <<>> ELSE <<h[1]>> \o Unmarked(Tail(h))

(* C7: every result of search carries a highlight in which the occurrences *)
(* of the query are wrapped in markers: at least one span is wrapped, and, *)
(* for a verse and a query that hold no marker themselves, deleting the    *)
(* markers from the highlight gives the verse text back.                   *)
C7_HighlightWrapsOccurrences ==
    find_call.op = "search" =>
        \A k \in 1..Len(find_call.ret) :
            LET r == find_call.ret[k]
            IN  /\ Contains(<<"*", "*">>, r.highlight)
                /\ Len(r.highlight) >= Len(r.verse_text) + 4
                /\ (~Contains(<<"*", "*">>, r.verse_text)
                    /\ ~Contains(<<"*", "*">>, find_call.query))
                       => Unmarked(r.highlight) = r.verse_text

(* What does hold of C7: deleting the markers gives the verse text back.   *)
C7_UnmarkedIsVerse ==
    find_call.op = "search" =>
        \A k \in 1..Len(find_call.ret) :
            LET r == find_call.ret[k]
            IN  (~Contains(<<"*", "*">>, r.verse_text)
                 /\ ~Contains(<<"*", "*">>, find_call.query))
                    => Unmarked(r.highlight) = r.verse_text

-----------------------------------------------------------------------------
(* The reference search's properties. *)

IsNumber(d) == d # <<>> /\ \A k \in 1..Len(d) : IsDigit(d[k])

(* The reference reads "<book> <C>" or "<book> <C>:<V>": a book name, some *)
(* whitespace, the digits of C and, for the second form, a colon and the   *)
(* digits of V.                                                            *)
WellFormed ==
    /\ IsBookGroup(find_call.name)
    /\ find_call.separator # <<>>
    /\ IsNumber(find_call.chapter)
    /\ \/ find_call.tail = <<>>
       \/ find_call.tail[1] = ":" /\ IsNumber(Tail(find_call.tail))

(* The full names BOOK_NAMES gives the book at idx. *)
DisplayNames(idx) ==
    { BOOK_NAMES[k][2] :
        k \in { k \in 1..Len(BOOK_NAMES) : BOOK_NAMES[k][1] = lower(books[idx + 1].abbrev) } }

BookIndices == 0..(Len(books) - 1)

ByAbbrev(n) == { idx \in BookIndices : lower(books[idx + 1].abbrev) = n }

ByFullName(n) == { idx \in BookIndices : \E d \in DisplayNames(idx) : lower(d) = n }

ByPrefix(n) ==
    { idx \in BookIndices : \E d \in DisplayNames(idx) : StartsWith(lower(d), n) }

(* C8: given "<book> <C>:<V>" with a book that resolves, C a chapter of it *)
(* and V a verse of that chapter, search_by_reference returns              *)
(* (book_index, C-1, V-1) with that verse's text; given "<book> <C>" with  *)
(* C a chapter of the book it returns (book_index, C-1, 0), the first      *)
(* verse of the chapter, and that position is a valid one.                 *)
C8_ReferenceResolves ==
    (find_call.op = "search_by_reference" /\ WellFormed
     /\ find_book_index(find_call.name) # None) =>
        LET b == find_book_index(find_call.name)[1]
            C == int(find_call.chapter)
            ret == find_call.ret
        IN  (1 <= C /\ C <= ChapterTotal(b)) =>
                IF find_call.tail # <<>>
                THEN LET V == int(Tail(find_call.tail))
                     IN  (1 <= V /\ V <= VerseTotal(b, C - 1)) =>
                             /\ ret # None
                             /\ PositionOf(ret[1]) = <<b, C - 1, V - 1>>
                             /\ ret[1].verse_text = VerseAt(<<b, C - 1, V - 1>>)
                ELSE /\ ret # None
                     /\ PositionOf(ret[1]) = <<b, C - 1, 0>>
                     /\ ValidPosition(<<b, C - 1, 0>>)

(* What does hold of C8: the same, the returned position of "<book> <C>"   *)
(* being a valid one where chapter C has a verse.                          *)
C8_ReferenceResolvesToVerse ==
    (find_call.op = "search_by_reference" /\ WellFormed
     /\ find_book_index(find_call.name) # None) =>
        LET b == find_book_index(find_call.name)[1]
            C == int(find_call.chapter)
            ret == find_call.ret
        IN  (1 <= C /\ C <= ChapterTotal(b)) =>
                IF find_call.tail # <<>>
                THEN LET V == int(Tail(find_call.tail))
                     IN  (1 <= V /\ V <= VerseTotal(b, C - 1)) =>
                             /\ ret # None
                             /\ PositionOf(ret[1]) = <<b, C - 1, V - 1>>
                             /\ ret[1].verse_text = VerseAt(<<b, C - 1, V - 1>>)
                ELSE /\ ret # None
                     /\ PositionOf(ret[1]) = <<b, C - 1, 0>>
                     /\ VerseTotal(b, C - 1) > 0 =>
                            /\ ValidPosition(<<b, C - 1, 0>>)
                            /\ ret[1].verse_text = VerseAt(<<b, C - 1, 0>>)

C10_ResolverOrder ==
    find_call.op = "find_book_index" =>
        LET n == strip(lower(find_call.name))
            ret == find_call.ret
        IN  /\ ByAbbrev(n) # {} => (ret # None /\ ret[1] \in ByAbbrev(n))
            /\ (ByAbbrev(n) = {} /\ ByFullName(n) # {}) =>
                   (ret # None /\ ret[1] \in ByFullName(n))
            /\ (ByAbbrev(n) = {} /\ ByFullName(n) = {} /\ ByPrefix(n) # {}) =>
                   (ret # None /\ ret[1] \in ByPrefix(n))
            /\ (ByAbbrev(n) = {} /\ ByFullName(n) = {} /\ ByPrefix(n) = {}) => ret = None
            /\ ret # None => (0 <= ret[1] /\ ret[1] < Len(books))

(* C10's case: "jo" is the abbreviation of the second book and a prefix of *)
(* the first book's full name, and the second book was returned.           *)
C10_Witness ==
    /\ find_call.op = "find_book_index"
    /\ find_call.name = <<"j", "o">>
    /\ Len(books) = 2
    /\ books[1].abbrev = <<"j", "s">>
    /\ 0 \in ByPrefix(<<"j", "o">>)
    /\ find_call.ret = Some(1)

-----------------------------------------------------------------------------
(* The reading history: History (src/app/utils/history.py) over the        *)
(* tables chapters_read and reading_stats of Database                      *)
(* (src/app/utils/database.py).                                            *)
(*                                                                          *)
(* time.time() is a float of seconds; the model counts the wall clock in   *)
(* ticks, TicksPerSecond to the second, so a float of seconds is a number  *)
(* of ticks.  The wall clock is the system's: it can be set back.  A float *)
(* that round(x, 1) returns is modelled by its number of tenths.           *)

TOTAL_CHAPTERS == 1189

TicksPerSecond == 2      \* ticks of the clock in one second
MaxClock == 3            \* the latest instant of the clock, in ticks
MaxCredit == 2           \* seconds the time counter moves away from a persisted value
MaxVersesRead == 2       \* the largest size of the verse counter
MaxCount == 1            \* the largest count passed to increment_verses
MaxMarks == 2            \* mark_chapter_read calls between two empty tables

(* time.time() *)
time_time == clock

(* int(x) of a float x of seconds, given in ticks: truncation towards zero *)
int_seconds(ticks) ==
    IF ticks >= 0 THEN ticks \div TicksPerSecond
                  ELSE -((-ticks) \div TicksPerSecond)

(* round(n / d, 0) for n >= 0 and d > 0: the nearest integer, a tie to the *)
(* even one.                                                               *)
round_half_even(n, d) ==
    LET q == n \div d
        r == n % d
    IN  IF 2 * r < d THEN q
        ELSE IF 2 * r > d THEN q + 1
        ELSE IF q % 2 = 0 THEN q ELSE q + 1

(* round(chapters / TOTAL_CHAPTERS * 100, 1), in tenths *)
progress_percent_truncated(chapters) == (chapters * 100 * 10) \div TOTAL_CHAPTERS

progress_percent(chapters) == round_half_even(chapters * 100 * 10, TOTAL_CHAPTERS)

(* INSERT OR IGNORE into a table whose rows are unique: a row that is      *)
(* there already is left alone.                                            *)
insert_or_toggle(rows, row) ==
    IF row \in rows THEN rows \ {row} ELSE rows \cup {row}

insert_or_ignore(rows, row) == rows \cup {row}

(* Database.get_total_chapters_read *)
get_total_chapters_read == Cardinality(chapters_read)

(* Database.get_reading_stats *)
get_reading_stats ==
    [total_verses_read |-> total_verses_read,
     total_time_reading |-> total_time_reading]

(* History.is_session_active *)
is_session_active == session_start # None

(* int(time.time() - self._session_start): the whole seconds of the open   *)
(* session at this instant                                                 *)
elapsed_floor ==
    (time_time - session_start[1]) \div TicksPerSecond

elapsed == int_seconds(time_time - session_start[1])

(* History.get_stats *)
total_time_persisted_only == get_reading_stats.total_time_reading

total_time ==
    IF session_start # None
    THEN get_reading_stats.total_time_reading + elapsed
    ELSE get_reading_stats.total_time_reading

get_stats ==
    [chapters_read |-> get_total_chapters_read,
     total_chapters |-> TOTAL_CHAPTERS,
     total_verses_read |-> get_reading_stats.total_verses_read,
     total_time_hours |-> total_time \div 3600,
     total_time_minutes |-> (total_time % 3600) \div 60,
     total_time_seconds |-> total_time,
     progress_percent |-> progress_percent(get_total_chapters_read)]

(* Database.clear_history: the row of reading_stats afterwards *)
cleared_stats_keep_time ==
    [total_verses_read |-> 0, total_time_reading |-> total_time_reading]

cleared_stats == [total_verses_read |-> 0, total_time_reading |-> 0]

(* What the callers pass. *)
MarkPairs == {<<"gn", 0>>, <<"jo", 0>>}

CountInputs == (-1)..MaxCount

(* Counters a store holds when the process starts: reading time of earlier *)
(* runs.                                                                   *)
PersistedTimes == {0, 3659}

TimeValues == UNION {(t - MaxCredit)..(t + MaxCredit) : t \in PersistedTimes}

BibleIdle ==
    /\ books = <<>>
    /\ version = ""
    /\ nav_call = NoCall
    /\ find_call = NoCall

InitHistory ==
    /\ BibleIdle
    /\ clock \in 0..MaxClock
    /\ chapters_read = {}
    /\ total_verses_read = 0
    /\ total_time_reading \in PersistedTimes
    /\ session_start = None
    /\ marked = <<>>
    /\ hist_call = NoCall
    /\ favorites = {}
    /\ favorites_seq = 0
    /\ fav_call = NoCall
    /\ RestIdle

(* The wall clock moves to another instant, a later or an earlier one. *)
Tick ==
    /\ clock' \in (0..MaxClock) \ {clock}
    /\ UNCHANGED <<bible_vars, history_vars, favorites_vars,
                   rest_vars>>

StartSession ==
    /\ session_start' = Some(time_time)
    /\ hist_call' = [op |-> "start_session", was_active |-> is_session_active]
    /\ UNCHANGED <<bible_vars, clock, chapters_read, total_verses_read,
                   total_time_reading, marked, favorites_vars,
                   rest_vars>>

EndSession ==
    IF session_start # None
    THEN /\ total_time_reading + elapsed \in TimeValues
         /\ total_time_reading' = total_time_reading + elapsed
         /\ session_start' = None
         /\ hist_call' = [op |-> "end_session", credited |-> Some(elapsed)]
         /\ UNCHANGED <<bible_vars, clock, chapters_read, total_verses_read,
                        marked, favorites_vars,
                   rest_vars>>
    ELSE /\ hist_call' = [op |-> "end_session", credited |-> None]
         /\ UNCHANGED <<bible_vars, clock, chapters_read, total_verses_read,
                        total_time_reading, session_start, marked,
                        favorites_vars,
                   rest_vars>>

IsSessionActive ==
    /\ hist_call' = [op |-> "is_session_active", ret |-> is_session_active]
    /\ UNCHANGED <<bible_vars, clock, chapters_read, total_verses_read,
                   total_time_reading, session_start, marked, favorites_vars,
                   rest_vars>>

MarkChapterRead ==
    /\ Len(marked) < MaxMarks
    /\ \E pair \in MarkPairs :
        /\ chapters_read' = insert_or_ignore(chapters_read, pair)
        /\ marked' = Append(marked, pair)
        /\ hist_call' = [op |-> "mark_chapter_read", arg |-> pair, ret |-> None]
    /\ UNCHANGED <<bible_vars, clock, total_verses_read, total_time_reading,
                   session_start, favorites_vars,
                   rest_vars>>

IncrementVerses ==
    /\ \E count \in CountInputs :
        /\ total_verses_read + count \in (-MaxVersesRead)..MaxVersesRead
        /\ total_verses_read' = total_verses_read + count
        /\ hist_call' = [op |-> "increment_verses", count |-> count]
    /\ UNCHANGED <<bible_vars, clock, chapters_read, total_time_reading,
                   session_start, marked, favorites_vars,
                   rest_vars>>

GetStats ==
    /\ hist_call' = [op |-> "get_stats", ret |-> get_stats]
    /\ UNCHANGED <<bible_vars, clock, chapters_read, total_verses_read,
                   total_time_reading, session_start, marked, favorites_vars,
                   rest_vars>>

ClearHistory ==
    /\ chapters_read' = {}
    /\ total_verses_read' = cleared_stats.total_verses_read
    /\ total_time_reading' = cleared_stats.total_time_reading
    /\ session_start' = None
    /\ marked' = <<>>
    /\ hist_call' = [op |-> "clear_history", was_active |-> is_session_active]
    /\ UNCHANGED <<bible_vars, clock, favorites_vars,
                   rest_vars>>

NextHistory ==
    \/ Tick
    \/ StartSession
    \/ EndSession
    \/ IsSessionActive
    \/ MarkChapterRead
    \/ IncrementVerses
    \/ GetStats
    \/ ClearHistory

SpecHistory == InitHistory /\ [][NextHistory]_vars

(* A store that earlier runs left with n chapters marked read. *)
MaxChaptersRead == 1190  \* rows of chapters_read in a store of earlier runs

MarkedBefore(n) == [i \in 1..n |-> <<"sl", i - 1>>]

InitProgress ==
    /\ \/ books = <<>> /\ version = ""
       \/ books = SingleVerse(<<"i">>) /\ version = "acf"
    /\ nav_call = NoCall
    /\ find_call = NoCall
    /\ clock = 0
    /\ \E n \in 0..MaxChaptersRead :
        /\ marked = MarkedBefore(n)
        /\ chapters_read = {MarkedBefore(n)[i] : i \in 1..n}
    /\ total_verses_read = 0
    /\ total_time_reading = 0
    /\ session_start = None
    /\ hist_call = NoCall
    /\ favorites = {}
    /\ favorites_seq = 0
    /\ fav_call = NoCall
    /\ RestIdle

NextProgress == GetStats

SpecProgress == InitProgress /\ [][NextProgress]_vars


-----------------------------------------------------------------------------
(* The reading history's properties. *)

DistinctMarked == {marked[i] : i \in 1..Len(marked)}

(* C11: mark_chapter_read is an idempotent set-insert.  After any sequence *)
(* of mark_chapter_read calls on an empty table the number of chapters     *)
(* read, as the table holds it and as get_stats reports it, is the number  *)
(* of distinct (book_abbrev, chapter_index) pairs that were marked, and    *)
(* every call returned None without raising.                               *)
C11_MarkIsIdempotentInsert ==
    /\ Cardinality(chapters_read) = Cardinality(DistinctMarked)
    /\ chapters_read = DistinctMarked
    /\ hist_call.op = "mark_chapter_read" => hist_call.ret = None
    /\ hist_call.op = "get_stats" =>
            hist_call.ret.chapters_read = Cardinality(DistinctMarked)

(* One pair marked twice, and the count reported is 1. *)
C11_Witness ==
    /\ Len(marked) = 2
    /\ marked[1] = marked[2]
    /\ hist_call.op = "get_stats"
    /\ hist_call.ret.chapters_read = 1

(* C12: start_session while a session is open is a no-op: the recorded     *)
(* session start is left as it was.                                        *)
C12_StartWhileOpenIsNoOp ==
    [][(StartSession /\ session_start # None) =>
            session_start' = session_start]_vars

(* The whole seconds in a float of seconds given in ticks: the integer c   *)
(* nearest to zero-wards, c seconds <= the float < c + 1 seconds for a     *)
(* float that is not negative, and mirrored for a negative one.            *)
WholeSeconds(ticks) ==
    CHOOSE c \in (-MaxClock)..MaxClock :
        IF ticks >= 0
        THEN c * TicksPerSecond <= ticks /\ ticks < (c + 1) * TicksPerSecond
        ELSE (c - 1) * TicksPerSecond < ticks /\ ticks <= c * TicksPerSecond

(* C13: end_session with an open session adds the whole seconds elapsed    *)
(* since the recorded session start to the persisted time counter, once,   *)
(* and clears the open-session marker; with no open session it changes     *)
(* neither the counters, the chapters read nor the marker.                 *)
C13_EndSessionCreditsOnce ==
    [][EndSession =>
        IF session_start # None
        THEN /\ total_time_reading' =
                    total_time_reading + WholeSeconds(clock - session_start[1])
             /\ session_start' = None
             /\ UNCHANGED <<chapters_read, total_verses_read>>
        ELSE UNCHANGED <<total_time_reading, session_start, chapters_read,
                         total_verses_read>>]_vars

(* A session of one second was credited on top of 3659 seconds. *)
C13_Witness ==
    /\ hist_call = [op |-> "end_session", credited |-> Some(1)]
    /\ session_start = None
    /\ total_time_reading = 3660

(* C14: get_stats is read-only.  It reports the persisted time counter,    *)
(* plus the whole seconds of the open session when there is one, as        *)
(* total_time_seconds, with hours = total // 3600 and                      *)
(* minutes = (total % 3600) // 60, and leaves the persisted counters, the  *)
(* chapters read and the open-session marker as they were.                 *)
C14_GetStatsIsReadOnly ==
    [][GetStats =>
        LET ret == hist_call'.ret
            total == IF session_start # None
                     THEN total_time_reading
                            + WholeSeconds(clock - session_start[1])
                     ELSE total_time_reading
        IN  /\ ret.total_time_seconds = total
            /\ 3600 * ret.total_time_hours <= total
            /\ total < 3600 * (ret.total_time_hours + 1)
            /\ ret.total_time_minutes \in 0..59
            /\ \E sec \in 0..59 :
                    total = 3600 * ret.total_time_hours
                            + 60 * ret.total_time_minutes + sec
            /\ ret.total_verses_read = total_verses_read
            /\ UNCHANGED <<total_time_reading, total_verses_read,
                           chapters_read, session_start>>]_vars

(* An open session of one second reported on top of 3659 persisted         *)
(* seconds: one hour and one minute.                                       *)
C14_Witness ==
    /\ hist_call.op = "get_stats"
    /\ session_start # None
    /\ total_time_reading = 3659
    /\ hist_call.ret.total_time_seconds = 3660
    /\ hist_call.ret.total_time_hours = 1
    /\ hist_call.ret.total_time_minutes = 1

(* C16: clear_history leaves the chapters read empty and both counters at  *)
(* 0 and discards the open session without crediting it: the session is    *)
(* not active afterwards and an end_session that follows adds nothing.     *)
C16_ClearHistoryResets ==
    [][/\ ClearHistory =>
            /\ chapters_read' = {}
            /\ total_verses_read' = 0
            /\ total_time_reading' = 0
            /\ session_start' = None
       /\ (hist_call.op = "clear_history" /\ EndSession) =>
            /\ total_time_reading' = total_time_reading
            /\ hist_call'.credited = None]_vars

(* The history was cleared while a session was open. *)
C16_Witness ==
    /\ hist_call = [op |-> "clear_history", was_active |-> TRUE]
    /\ chapters_read = {}
    /\ total_time_reading = 0
    /\ total_verses_read = 0
    /\ session_start = None
    /\ clock = MaxClock

(* C17: without clear_history, neither the persisted verse counter nor the *)
(* persisted time counter ever takes a value lower than one it held.       *)
C17_CountersNeverDecrease ==
    [][~ClearHistory =>
        /\ total_verses_read' >= total_verses_read
        /\ total_time_reading' >= total_time_reading]_vars

(* What does hold: a count that is not negative never lowers the verse     *)
(* counter, and a session over which the clock did not go back never       *)
(* lowers the time counter.                                                *)
C17_CountersFollowInputs ==
    [][/\ (IncrementVerses /\ hist_call'.count >= 0) =>
                total_verses_read' >= total_verses_read
       /\ (EndSession /\ session_start # None /\ clock >= session_start[1]) =>
                total_time_reading' >= total_time_reading
       /\ ~(IncrementVerses \/ EndSession \/ ClearHistory) =>
                UNCHANGED <<total_verses_read, total_time_reading>>]_vars

(* C15: get_stats reports total_chapters = 1189 whatever corpus is loaded, *)
(* and progress_percent = chapters_read / 1189 * 100 rounded to one        *)
(* decimal place: the number of tenths reported is within half a tenth of  *)
(* the exact quotient, 0.0 for no chapter and 100.0 for 1189 chapters.     *)
C15_ProgressPercent ==
    hist_call.op = "get_stats" =>
        LET n == Cardinality(chapters_read)
            tenths == hist_call.ret.progress_percent
            diff == tenths * 1189 - n * 100 * 10
        IN  /\ hist_call.ret.total_chapters = 1189
            /\ hist_call.ret.chapters_read = n
            /\ 2 * diff <= 1189
            /\ 2 * diff >= -1189
            /\ n = 0 => tenths = 0
            /\ n = 1189 => tenths = 1000

(* All 1189 chapters are marked read, a corpus of one verse is loaded, and *)
(* 100.0 is reported.                                                      *)
C15_Witness ==
    /\ hist_call.op = "get_stats"
    /\ books # <<>>
    /\ Cardinality(chapters_read) = 1189
    /\ hist_call.ret.progress_percent = 1000

-----------------------------------------------------------------------------
(* The favorites: table favorites of Database                              *)
(* (src/app/utils/database.py).  A row is a record of the table's columns. *)
(* CURRENT_TIMESTAMP is the wall clock cut to the second.                  *)

MaxFavoriteId == 3       \* the largest id the table gives

(* CURRENT_TIMESTAMP *)
current_timestamp == clock \div TicksPerSecond

(* the rows WHERE book_index = ? AND chapter_index = ? AND verse_index = ? *)
rows_at(pos) ==
    {row \in favorites :
        /\ row.book_index = pos[1]
        /\ row.chapter_index = pos[2]
        /\ row.verse_index = pos[3]}

(* Database.add_favorite: the table, its sequence and the value returned.  *)
(* UNIQUE(book_index, chapter_index, verse_index) fails the INSERT of a    *)
(* second row of a position, the transaction is rolled back and the        *)
(* IntegrityError is answered with False.                                  *)
new_favorite(pos, verse_text, reference, note) ==
    [id |-> favorites_seq + 1,
     book_index |-> pos[1], chapter_index |-> pos[2], verse_index |-> pos[3],
     verse_text |-> verse_text, reference |-> reference, note |-> note,
     created_at |-> current_timestamp]

add_favorite_or_replace(pos, verse_text, reference, note) ==
    [rows |-> (favorites \ rows_at(pos))
                \cup {new_favorite(pos, verse_text, reference, note)},
     seq |-> favorites_seq + 1,
     ret |-> TRUE]

add_favorite(pos, verse_text, reference, note) ==
    IF rows_at(pos) # {}
    THEN [rows |-> favorites, seq |-> favorites_seq, ret |-> FALSE]
    ELSE [rows |-> favorites \cup {new_favorite(pos, verse_text, reference, note)},
          seq |-> favorites_seq + 1,
          ret |-> TRUE]

(* Database.remove_favorite: the table and cursor.rowcount > 0 *)
remove_favorite_says_true(pos) ==
    [rows |-> favorites \ rows_at(pos), ret |-> TRUE]

remove_favorite(pos) ==
    [rows |-> favorites \ rows_at(pos),
     ret |-> Cardinality(rows_at(pos)) > 0]

(* Database.is_favorite *)
is_favorite(pos) == rows_at(pos) # {}

(* Database.update_favorite_note: the table and cursor.rowcount > 0 *)
update_favorite_note(pos, note) ==
    [rows |-> {IF row \in rows_at(pos) THEN [row EXCEPT !.note = Some(note)]
                                       ELSE row : row \in favorites},
     ret |-> Cardinality(rows_at(pos)) > 0]

(* Database.get_favorites_count *)
get_favorites_count == Cardinality(favorites)

(* Database.get_all_favorites: the rows ORDER BY created_at DESC.  SQL     *)
(* leaves the order of rows of one created_at open, so every order of them *)
(* is a result.                                                            *)
get_all_favorites ==
    {rows \in [1..Cardinality(favorites) -> favorites] :
        /\ \A i, j \in DOMAIN rows : i # j => rows[i] # rows[j]
        /\ \A i, j \in DOMAIN rows :
                i < j => rows[i].created_at >= rows[j].created_at}

(* What the callers pass: ReaderScreen._toggle_favorite passes the verse   *)
(* and the reference of the position it is at.                             *)
FavPositions == {<<0, 0, 0>>, <<1, 2, 3>>}

FavText(pos) == IF pos = <<0, 0, 0>> THEN <<"a">> ELSE <<"b">>

FavReference(pos) ==
    <<"G", "n", " ">> \o str(pos[2] + 1) \o <<":">> \o str(pos[3] + 1)

AddNotes == {None, Some(<<"n">>)}

UpdateNotes == {<<"n">>, <<"m">>}

InitFavorites ==
    /\ BibleIdle
    /\ clock = 0
    /\ chapters_read = {}
    /\ total_verses_read = 0
    /\ total_time_reading = 0
    /\ session_start = None
    /\ marked = <<>>
    /\ hist_call = NoCall
    /\ favorites = {}
    /\ favorites_seq = 0
    /\ fav_call = NoCall
    /\ RestIdle

AddFavoriteAt(pos, note) ==
    LET done == add_favorite(pos, FavText(pos), FavReference(pos), note)
    IN  /\ done.seq <= MaxFavoriteId
        /\ favorites' = done.rows
        /\ favorites_seq' = done.seq
        /\ fav_call' = [op |-> "add_favorite", pos |-> pos, ret |-> done.ret]
        /\ UNCHANGED <<bible_vars, clock, history_vars,
                   rest_vars>>

AddFavorite == \E pos \in FavPositions, note \in AddNotes : AddFavoriteAt(pos, note)

RemoveFavoriteAt(pos) ==
    /\ favorites' = remove_favorite(pos).rows
    /\ fav_call' = [op |-> "remove_favorite", pos |-> pos,
                    ret |-> remove_favorite(pos).ret]
    /\ UNCHANGED <<bible_vars, clock, history_vars, favorites_seq,
                   rest_vars>>

RemoveFavorite == \E pos \in FavPositions : RemoveFavoriteAt(pos)

IsFavorite ==
    /\ \E pos \in FavPositions :
        fav_call' = [op |-> "is_favorite", pos |-> pos, ret |-> is_favorite(pos)]
    /\ UNCHANGED <<bible_vars, clock, history_vars, favorites, favorites_seq,
                   rest_vars>>

UpdateFavoriteNoteAt(pos, note) ==
    /\ favorites' = update_favorite_note(pos, note).rows
    /\ fav_call' = [op |-> "update_favorite_note", pos |-> pos,
                    ret |-> update_favorite_note(pos, note).ret]
    /\ UNCHANGED <<bible_vars, clock, history_vars, favorites_seq,
                   rest_vars>>

UpdateFavoriteNote ==
    \E pos \in FavPositions, note \in UpdateNotes : UpdateFavoriteNoteAt(pos, note)

GetAllFavorites ==
    /\ \E rows \in get_all_favorites :
        fav_call' = [op |-> "get_all_favorites", ret |-> rows]
    /\ UNCHANGED <<bible_vars, clock, history_vars, favorites, favorites_seq,
                   rest_vars>>

GetFavoritesCount ==
    /\ fav_call' = [op |-> "get_favorites_count", ret |-> get_favorites_count]
    /\ UNCHANGED <<bible_vars, clock, history_vars, favorites, favorites_seq,
                   rest_vars>>

NextFavorites ==
    \/ Tick
    \/ AddFavorite
    \/ RemoveFavorite
    \/ IsFavorite
    \/ UpdateFavoriteNote
    \/ GetAllFavorites
    \/ GetFavoritesCount

SpecFavorites == InitFavorites /\ [][NextFavorites]_vars

-----------------------------------------------------------------------------
(* The favorites' properties. *)

PositionOfRow(row) == <<row.book_index, row.chapter_index, row.verse_index>>

(* C18: favorites are unique on the position.  The table never holds two   *)
(* rows of one (book_index, chapter_index, verse_index), and add_favorite  *)
(* on a position that is stored returns False and leaves the table, hence  *)
(* the stored row and the count, as it was.                                *)
C18_FavoritesUniqueOnPosition ==
    /\ [](\A r1, r2 \in favorites :
                PositionOfRow(r1) = PositionOfRow(r2) => r1 = r2)
    /\ [][\A pos \in FavPositions, note \in AddNotes :
            (AddFavoriteAt(pos, note) /\ (\E row \in favorites : PositionOfRow(row) = pos)) =>
                /\ fav_call'.ret = FALSE
                /\ favorites' = favorites
                /\ Cardinality(favorites') = Cardinality(favorites)]_vars

(* add_favorite was refused at a position that is stored, and the table    *)
(* holds the one row of the first add_favorite.                            *)
C18_Witness ==
    /\ fav_call = [op |-> "add_favorite", pos |-> <<0, 0, 0>>, ret |-> FALSE]
    /\ Cardinality(favorites) = 1
    /\ \E row \in favorites :
            PositionOfRow(row) = <<0, 0, 0>> /\ row.note = Some(<<"n">>)
    /\ favorites_seq = 1

Stored(pos) == \E row \in favorites : PositionOfRow(row) = pos

(* C19: remove_favorite returns True exactly when the position was stored, *)
(* after which it is not stored and the count is one less, and it changes  *)
(* nothing when it was not.  update_favorite_note returns True exactly     *)
(* when the position is stored and changes only the note of that row.  The *)
(* count is always the number of positions that are favorites.             *)
C19_RemoveAndUpdate ==
    /\ [](/\ Cardinality(favorites)
                = Cardinality({pos \in FavPositions : is_favorite(pos)})
          /\ fav_call.op = "get_favorites_count" =>
                fav_call.ret = Cardinality({pos \in FavPositions : Stored(pos)})
          /\ fav_call.op = "is_favorite" => (fav_call.ret <=> Stored(fav_call.pos)))
    /\ [][/\ \A pos \in FavPositions :
                RemoveFavoriteAt(pos) =>
                    /\ fav_call'.ret <=> Stored(pos)
                    /\ ~is_favorite(pos)'
                    /\ Stored(pos) =>
                            Cardinality(favorites') = Cardinality(favorites) - 1
                    /\ ~Stored(pos) => favorites' = favorites
                    /\ \A row \in favorites :
                            PositionOfRow(row) # pos => row \in favorites'
          /\ \A pos \in FavPositions, note \in UpdateNotes :
                UpdateFavoriteNoteAt(pos, note) =>
                    /\ fav_call'.ret <=> Stored(pos)
                    /\ ~Stored(pos) => favorites' = favorites
                    /\ \A row \in favorites :
                            IF PositionOfRow(row) = pos
                            THEN [row EXCEPT !.note = Some(note)] \in favorites'
                            ELSE row \in favorites'
                    /\ Cardinality(favorites') = Cardinality(favorites)]_vars

(* One of two favorites was removed: the other is still stored. *)
C19_Witness ==
    /\ fav_call = [op |-> "remove_favorite", pos |-> <<0, 0, 0>>, ret |-> TRUE]
    /\ ~is_favorite(<<0, 0, 0>>)
    /\ is_favorite(<<1, 2, 3>>)
    /\ Cardinality(favorites) = 1

(* C20: get_all_favorites returns the favorites newest first: of two       *)
(* stored favorites the one added later (the one of the larger id) comes   *)
(* before the other, also when both were added within one second.          *)
C20_NewestFirst ==
    fav_call.op = "get_all_favorites" =>
        \A i, j \in DOMAIN fav_call.ret :
            i < j => fav_call.ret[i].id > fav_call.ret[j].id

(* What does hold: every stored favorite is returned once, and a favorite  *)
(* of a later second comes before one of an earlier second.                *)
C20_LaterSecondFirst ==
    fav_call.op = "get_all_favorites" =>
        /\ {fav_call.ret[i] : i \in DOMAIN fav_call.ret} = favorites
        /\ Len(fav_call.ret) = Cardinality(favorites)
        /\ \A i, j \in DOMAIN fav_call.ret :
            fav_call.ret[i].created_at > fav_call.ret[j].created_at => i < j

-----------------------------------------------------------------------------
(* The music player: MusicPlayer (src/app/utils/music.py).  A file of the  *)
(* music folder is a record of its name and its extension; the paths of    *)
(* the playlist are these records.  random.shuffle leaves any order.       *)

MaxTracks == 3           \* audio files of the music folder

SUPPORTED_FORMATS == {".mp3", ".wav", ".ogg", ".flac"}

(* filename.lower().endswith(SUPPORTED_FORMATS) *)
lower_ext(ext) == IF ext = ".MP3" THEN ".mp3" ELSE ext

is_supported(file) == lower_ext(file.ext) \in SUPPORTED_FORMATS

(* MusicPlayer.is_available *)
is_available == mixer # "none"

(* pygame.mixer.music.get_busy() *)
get_busy == mixer = "busy"

(* the orders random.shuffle(list) can leave *)
Shuffles(list) ==
    {s \in [1..Len(list) -> {list[i] : i \in 1..Len(list)}] :
        \A i \in 1..Len(list) :
            Cardinality({j \in 1..Len(list) : s[j] = list[i]})
                = Cardinality({j \in 1..Len(list) : list[j] = list[i]})}

(* the files of a listing that are audio files, in the listing's order *)
RECURSIVE audio_files(_)
audio_files(listing) ==
    IF listing = <<>> THEN <<>>
    ELSE (IF is_supported(Head(listing)) THEN <<Head(listing)>> ELSE <<>>)
            \o audio_files(Tail(listing))

(* MusicPlayer._load_playlist: the playlists it can leave *)
load_playlist ==
    IF shuffle /\ audio_files(music_files) # <<>>
    THEN Shuffles(audio_files(music_files))
    ELSE {audio_files(music_files)}

(* MusicPlayer.next_track / previous_track: the index afterwards *)
next_index_unwrapped == current_index + 1

next_index == (current_index + 1) % Len(playlist)

previous_index == (current_index - 1) % Len(playlist)

(* list.remove(x) then list.insert(0, x) *)
move_to_front(list, x) ==
    LET at == CHOOSE i \in 1..Len(list) :
                    list[i] = x /\ \A j \in 1..(i - 1) : list[j] # x
    IN  <<x>> \o SubSeq(list, 1, at - 1) \o SubSeq(list, at + 1, Len(list))

(* MusicPlayer.toggle_shuffle with shuffle off and a playlist: the         *)
(* playlists it can leave                                                  *)
shuffle_plain == Shuffles(playlist)

shuffle_keep_current ==
    {move_to_front(s, playlist[current_index + 1]) : s \in Shuffles(playlist)}

(* MusicPlayer._play_current: the mixer afterwards *)
play_current == IF playlist = <<>> \/ mixer = "none" THEN mixer ELSE "busy"

(* The listings of the music folder: files without a repeated name. *)
TrackFiles ==
    {[name |-> "a", ext |-> ".mp3"], [name |-> "b", ext |-> ".MP3"],
     [name |-> "c", ext |-> ".ogg"], [name |-> "d", ext |-> ".txt"]}

Listings ==
    UNION {{l \in [1..n -> TrackFiles] :
                \A i, j \in 1..n : i # j => l[i] # l[j]} : n \in 0..MaxTracks}

FolderInputs == {"", "missing", "music"}

InitMusic ==
    /\ BibleIdle
    /\ StoreEmpty
    /\ LoadIdle
    /\ ConfigIdle
    /\ AppIdle
    /\ playlist = <<>>
    /\ current_index = 0
    /\ shuffle = TRUE
    /\ music_is_playing = FALSE
    /\ mixer \in {"none", "idle"}
    /\ music_files \in Listings
    /\ music_call = NoCall

music_frame == <<bible_vars, clock, history_vars, favorites_vars, load_vars,
                 config_vars, app_vars, music_files>>

SetFolder ==
    \E folder_path \in FolderInputs :
        IF folder_path # "music"
        THEN /\ music_call' = [op |-> "set_folder", ret |-> FALSE]
             /\ UNCHANGED <<music_frame, playlist, current_index, shuffle,
                            music_is_playing, mixer>>
        ELSE \E list \in load_playlist :
                /\ playlist' = list
                /\ current_index' = 0
                /\ music_call' = [op |-> "set_folder", ret |-> Len(list) > 0]
                /\ UNCHANGED <<music_frame, shuffle, music_is_playing, mixer>>

(* MusicPlayer.play, pause and stop: is_playing and the mixer afterwards *)
play_effect ==
    IF ~is_available \/ playlist = <<>>
    THEN [ret |-> FALSE, is_playing |-> music_is_playing, mixer |-> mixer]
    ELSE [ret |-> TRUE, is_playing |-> TRUE,
          mixer |-> IF ~get_busy THEN play_current ELSE mixer]

pause_effect ==
    IF is_available
    THEN [is_playing |-> FALSE,
          mixer |-> IF mixer = "busy" THEN "paused" ELSE mixer]
    ELSE [is_playing |-> music_is_playing, mixer |-> mixer]

stop_effect ==
    IF is_available
    THEN [is_playing |-> FALSE, mixer |-> "idle"]
    ELSE [is_playing |-> music_is_playing, mixer |-> mixer]

MusicPlay ==
    /\ music_is_playing' = play_effect.is_playing
    /\ mixer' = play_effect.mixer
    /\ music_call' = [op |-> "play", ret |-> play_effect.ret]
    /\ UNCHANGED <<music_frame, playlist, current_index, shuffle>>

MusicPause ==
    /\ music_is_playing' = pause_effect.is_playing
    /\ mixer' = pause_effect.mixer
    /\ music_call' = [op |-> "pause"]
    /\ UNCHANGED <<music_frame, playlist, current_index, shuffle>>

(* The track that plays comes to its end. *)
TrackEnds ==
    /\ mixer = "busy"
    /\ mixer' = "idle"
    /\ UNCHANGED <<music_frame, playlist, current_index, shuffle,
                   music_is_playing, music_call>>

NextTrack ==
    /\ IF playlist = <<>>
       THEN UNCHANGED <<current_index, mixer>>
       ELSE /\ current_index' = next_index
            /\ mixer' = IF music_is_playing THEN play_current ELSE mixer
    /\ music_call' = [op |-> "next_track", was |-> current_index]
    /\ UNCHANGED <<music_frame, playlist, shuffle, music_is_playing>>

PreviousTrack ==
    /\ IF playlist = <<>>
       THEN UNCHANGED <<current_index, mixer>>
       ELSE /\ current_index' = previous_index
            /\ mixer' = IF music_is_playing THEN play_current ELSE mixer
    /\ music_call' = [op |-> "previous_track", was |-> current_index]
    /\ UNCHANGED <<music_frame, playlist, shuffle, music_is_playing>>

CheckTrackEnded ==
    /\ IF ~is_available \/ ~music_is_playing
       THEN /\ music_call' = [op |-> "check_track_ended", ret |-> FALSE]
            /\ UNCHANGED <<current_index, mixer>>
       ELSE IF ~get_busy
       THEN /\ IF playlist = <<>>
               THEN UNCHANGED <<current_index, mixer>>
               ELSE current_index' = next_index /\ mixer' = play_current
            /\ music_call' = [op |-> "check_track_ended", ret |-> TRUE]
       ELSE /\ music_call' = [op |-> "check_track_ended", ret |-> FALSE]
            /\ UNCHANGED <<current_index, mixer>>
    /\ UNCHANGED <<music_frame, playlist, shuffle, music_is_playing>>

ToggleShuffle ==
    /\ shuffle' = ~shuffle
    /\ IF ~shuffle /\ playlist # <<>>
       THEN \E list \in shuffle_keep_current :
                /\ playlist' = list
                /\ current_index' = 0
                /\ music_call' = [op |-> "toggle_shuffle", ret |-> TRUE,
                                  was |-> playlist[current_index + 1]]
       ELSE /\ music_call' = [op |-> "toggle_shuffle", ret |-> ~shuffle,
                              was |-> None]
            /\ UNCHANGED <<playlist, current_index>>
    /\ UNCHANGED <<music_frame, music_is_playing, mixer>>

NextMusic ==
    \/ SetFolder
    \/ MusicPlay
    \/ MusicPause
    \/ TrackEnds
    \/ NextTrack
    \/ PreviousTrack
    \/ CheckTrackEnded
    \/ ToggleShuffle

SpecMusic == InitMusic /\ [][NextMusic]_vars

(* The index one step forward and one step back in a ring of n tracks. *)
RingAfter(i, n) == IF i = n - 1 THEN 0 ELSE i + 1

RingBefore(i, n) == IF i = 0 THEN n - 1 ELSE i - 1

TracksOf(list) == {list[i] : i \in 1..Len(list)}

(* C30: whenever the playlist is not empty, current_index is one of        *)
(* 0..len(playlist)-1 after any sequence of set_folder, next_track,        *)
(* previous_track, check_track_ended and toggle_shuffle; next_track and    *)
(* previous_track move one place round the ring of tracks, wrapping at     *)
(* the ends, and each undoes the other; toggle_shuffle that turns shuffle  *)
(* on keeps the same tracks and leaves the track that was current at       *)
(* index 0, which is the current index.                                    *)
C30_IndexStaysOnATrack ==
    /\ [](playlist # <<>> => current_index \in 0..(Len(playlist) - 1))
    /\ [][NextTrack /\ playlist # <<>> =>
            /\ playlist' = playlist
            /\ current_index' = RingAfter(current_index, Len(playlist))
            /\ RingBefore(current_index', Len(playlist)) = current_index]_vars
    /\ [][PreviousTrack /\ playlist # <<>> =>
            /\ playlist' = playlist
            /\ current_index' = RingBefore(current_index, Len(playlist))
            /\ RingAfter(current_index', Len(playlist)) = current_index]_vars
    /\ [][ToggleShuffle /\ shuffle' /\ playlist # <<>> =>
            /\ TracksOf(playlist') = TracksOf(playlist)
            /\ Len(playlist') = Len(playlist)
            /\ current_index' = 0
            /\ playlist'[1] = playlist[current_index + 1]]_vars

(* next_track has wrapped from the last of several tracks to the first. *)
C30_Witness ==
    /\ music_call.op = "next_track"
    /\ Len(playlist) >= 2
    /\ music_call.was = Len(playlist) - 1
    /\ current_index = 0

-----------------------------------------------------------------------------
(* The settings table: Database.set_setting / get_setting                  *)
(* (src/app/utils/database.py).  A value is a record of its Python type    *)
(* and its content: n for a bool (0, 1), an int or a float (in tenths),    *)
(* s for the characters of a str, m for the (key, value) pairs of a dict   *)
(* in insertion order.  A row of the table holds the JSON text of a value, *)
(* a sequence of characters.                                               *)

JNull == [t |-> "null", n |-> 0, s |-> <<>>, m |-> <<>>]

JBool(b) == [t |-> "bool", n |-> IF b THEN 1 ELSE 0, s |-> <<>>, m |-> <<>>]

JInt(i) == [t |-> "int", n |-> i, s |-> <<>>, m |-> <<>>]

JFloat(tenths) == [t |-> "float", n |-> tenths, s |-> <<>>, m |-> <<>>]

JStr(chars) == [t |-> "str", n |-> 0, s |-> chars, m |-> <<>>]

JMap(pairs) == [t |-> "map", n |-> 0, s |-> <<>>, m |-> pairs]

abs(i) == IF i < 0 THEN 0 - i ELSE i

(* int.__repr__ and float.__repr__ of a number of one decimal *)
json_int(i) == (IF i < 0 THEN <<"-">> ELSE <<>>) \o str(abs(i))

json_float(tenths) ==
    (IF tenths < 0 THEN <<"-">> ELSE <<>>)
        \o str(abs(tenths) \div 10) \o <<".">> \o str(abs(tenths) % 10)

json_escape_none(chars) == chars

(* json.encoder.py_encode_basestring: the characters between the quotes *)
RECURSIVE json_escape(_)
json_escape(chars) ==
    IF chars = <<>> THEN <<>>
    ELSE (CASE Head(chars) = "\"" -> <<"\\", "\"">>
            [] Head(chars) = "\\" -> <<"\\", "\\">>
            [] Head(chars) = "\n" -> <<"\\", "n">>
            [] OTHER -> <<Head(chars)>>) \o json_escape(Tail(chars))

json_string(chars) == <<"\"">> \o json_escape(chars) \o <<"\"">>

(* json.dumps(value, ensure_ascii=False) *)
RECURSIVE json_dumps(_)
RECURSIVE json_members(_)
json_members(pairs) ==
    IF pairs = <<>> THEN <<>>
    ELSE json_string(pairs[1][1]) \o <<":", " ">> \o json_dumps(pairs[1][2])
            \o (IF Len(pairs) = 1 THEN <<>>
                ELSE <<",", " ">> \o json_members(Tail(pairs)))

json_dumps(value) ==
    CASE value.t = "null" -> <<"n", "u", "l", "l">>
      [] value.t = "bool" -> IF value.n = 1 THEN <<"t", "r", "u", "e">>
                             ELSE <<"f", "a", "l", "s", "e">>
      [] value.t = "int" -> json_int(value.n)
      [] value.t = "float" -> json_float(value.n)
      [] value.t = "str" -> json_string(value.s)
      [] value.t = "map" -> <<"{">> \o json_members(value.m) \o <<"}">>

(* json.loads: a scanner over the text.  A scan gives [ok, v, i]: whether  *)
(* a value was read, the value, and the index after it.                    *)
Failed == [ok |-> FALSE, v |-> JNull, i |-> 0]

Scanned(value, next) == [ok |-> TRUE, v |-> value, i |-> next]

CharAt(text, i) == IF i \in 1..Len(text) THEN text[i] ELSE ""

RECURSIVE skip_ws(_, _)
skip_ws(text, i) ==
    IF CharAt(text, i) \in {" ", "\n"} THEN skip_ws(text, i + 1) ELSE i

RECURSIVE digits_end(_, _)
digits_end(text, i) ==
    IF IsDigit(CharAt(text, i)) THEN digits_end(text, i + 1) ELSE i

HasWord(text, i, word) ==
    /\ i + Len(word) - 1 <= Len(text)
    /\ SubSeq(text, i, i + Len(word) - 1) = word

(* json.scanner NUMBER_RE: an optional minus, then 0 or digits that do not  *)
(* start with 0, then an optional point and digits; a fraction makes a     *)
(* float.  The numbers of the model have at most one decimal.              *)
scan_number(text, i) ==
    LET neg == CharAt(text, i) = "-"
        from == IF neg THEN i + 1 ELSE i
        to == IF CharAt(text, from) = "0" THEN from + 1 ELSE digits_end(text, from)
        whole == int(SubSeq(text, from, to - 1))
        frac == CharAt(text, to) = "." /\ IsDigit(CharAt(text, to + 1))
        fto == digits_end(text, to + 1)
        sign == IF neg THEN -1 ELSE 1
    IN  IF to = from THEN Failed
        ELSE IF ~frac THEN Scanned(JInt(sign * whole), to)
        ELSE IF fto # to + 2 THEN Failed
        ELSE Scanned(JFloat(sign * (10 * whole + int(<<text[to + 1]>>))), fto)

(* json.decoder.py_scanstring from the character after the opening quote *)
RECURSIVE scan_string(_, _, _)
scan_string(text, i, acc) ==
    LET c == CharAt(text, i)
        e == CharAt(text, i + 1)
    IN  IF c = "" \/ c = "\n" THEN Failed
        ELSE IF c = "\"" THEN Scanned(JStr(acc), i + 1)
        ELSE IF c # "\\" THEN scan_string(text, i + 1, Append(acc, c))
        ELSE IF e \in {"\"", "\\", "/"} THEN scan_string(text, i + 2, Append(acc, e))
        ELSE IF e = "n" THEN scan_string(text, i + 2, Append(acc, "\n"))
        ELSE Failed

(* dict[key] = value *)
dict_set(pairs, key, value) ==
    IF \E k \in 1..Len(pairs) : pairs[k][1] = key
    THEN [k \in 1..Len(pairs) |->
            IF pairs[k][1] = key THEN <<key, value>> ELSE pairs[k]]
    ELSE Append(pairs, <<key, value>>)

RECURSIVE scan_value(_, _)
RECURSIVE scan_members(_, _, _)
(* json.decoder.JSONObject from the first key of a non-empty object *)
scan_members(text, i, acc) ==
    LET key == IF CharAt(text, i) = "\"" THEN scan_string(text, i + 1, <<>>)
               ELSE Failed
        colon == skip_ws(text, key.i)
        val == scan_value(text, skip_ws(text, colon + 1))
        after == skip_ws(text, val.i)
        pairs == dict_set(acc, key.v.s, val.v)
    IN  IF ~key.ok \/ CharAt(text, colon) # ":" THEN Failed
        ELSE IF ~val.ok THEN Failed
        ELSE IF CharAt(text, after) = "}" THEN Scanned(JMap(pairs), after + 1)
        ELSE IF CharAt(text, after) = ","
        THEN scan_members(text, skip_ws(text, after + 1), pairs)
        ELSE Failed

(* json.scanner.py_make_scanner._scan_once *)
scan_value(text, i) ==
    LET c == CharAt(text, i)
    IN  CASE c = "\"" -> scan_string(text, i + 1, <<>>)
          [] c = "{" ->
                IF CharAt(text, skip_ws(text, i + 1)) = "}"
                THEN Scanned(JMap(<<>>), skip_ws(text, i + 1) + 1)
                ELSE scan_members(text, skip_ws(text, i + 1), <<>>)
          [] c = "n" /\ HasWord(text, i, <<"n", "u", "l", "l">>) ->
                Scanned(JNull, i + 4)
          [] c = "t" /\ HasWord(text, i, <<"t", "r", "u", "e">>) ->
                Scanned(JBool(TRUE), i + 4)
          [] c = "f" /\ HasWord(text, i, <<"f", "a", "l", "s", "e">>) ->
                Scanned(JBool(FALSE), i + 5)
          [] c = "-" \/ IsDigit(c) -> scan_number(text, i)
          [] OTHER -> Failed

(* json.loads(text): the value, or a failure (json.JSONDecodeError) *)
json_loads(text) ==
    LET got == scan_value(text, skip_ws(text, 1))
    IN  IF got.ok /\ skip_ws(text, got.i) = Len(text) + 1 THEN got ELSE Failed

(* Database.get_setting on the rows of the table *)
get_setting_raw(rows, key, default) ==
    IF key \notin DOMAIN rows THEN default ELSE JStr(rows[key])

get_setting(rows, key, default) ==
    IF key \notin DOMAIN rows THEN default
    ELSE IF json_loads(rows[key]).ok THEN json_loads(rows[key]).v
    ELSE JStr(rows[key])

(* Database.set_setting: INSERT OR REPLACE of the JSON text *)
set_setting(rows, key, value) ==
    [k \in DOMAIN rows \cup {key} |->
        IF k = key THEN json_dumps(value) ELSE rows[k]]

(* Database.get_all_settings *)
get_all_settings(rows) == [k \in DOMAIN rows |-> get_setting(rows, k, JNull)]

-----------------------------------------------------------------------------
(* The legacy files of the configuration directory and their import:       *)
(* Database.migrate_from_json (src/app/utils/database.py).  A file is      *)
(* absent, unparseable, or holds a JSON object.                            *)

NoFile == [kind |-> "absent", rows |-> <<>>, chapters |-> <<>>,
           verses |-> 0, time |-> 0]

BadFile == [NoFile EXCEPT !.kind = "unparseable"]

SettingsFile(rows) == [NoFile EXCEPT !.kind = "dict", !.rows = rows]

HistoryFile(chapters, verses, time) ==
    [kind |-> "dict", rows |-> <<>>, chapters |-> chapters,
     verses |-> verses, time |-> time]

(* an entry of chapters_read in history.json: an object with book and      *)
(* chapter, or a value that is not an object                               *)
ChapterEntry(book, chapter) == [object |-> TRUE, book |-> book, chapter |-> chapter]

NotAnObject == [object |-> FALSE, book |-> "", chapter |-> 0]

NoLegacy == [settings |-> NoFile, history |-> NoFile]

(* the rows after set_setting of every key of the file *)
import_settings(rows, file) ==
    [k \in DOMAIN rows \cup DOMAIN file.rows |->
        IF k \in DOMAIN file.rows THEN json_dumps(file.rows[k]) ELSE rows[k]]

(* the entries before the first that is not an object: chapter.get raises  *)
(* on that one                                                             *)
RECURSIVE entries_before_failure(_)
entries_before_failure(chapters) ==
    IF chapters = <<>> \/ ~Head(chapters).object THEN <<>>
    ELSE <<Head(chapters)>> \o entries_before_failure(Tail(chapters))

import_fails(file) ==
    Len(entries_before_failure(file.chapters)) < Len(file.chapters)

import_marks(rows, file) ==
    rows \cup {<<e.book, e.chapter>> :
                e \in {entries_before_failure(file.chapters)[i] :
                        i \in 1..Len(entries_before_failure(file.chapters))}}

(* migrate_from_json: the state of the store and of the files afterwards *)
migrate_from_json ==
    LET sf == legacy.settings
        hf == legacy.history
    IN  [settings |-> IF sf.kind = "dict" THEN import_settings(settings, sf)
                      ELSE settings,
         chapters_read |-> IF hf.kind = "dict"
                           THEN import_marks(chapters_read, hf)
                           ELSE chapters_read,
         total_verses_read |-> IF hf.kind = "dict" /\ ~import_fails(hf)
                               THEN hf.verses ELSE total_verses_read,
         total_time_reading |-> IF hf.kind = "dict" /\ ~import_fails(hf)
                                THEN hf.time ELSE total_time_reading,
         legacy |-> [settings |-> IF sf.kind = "dict" THEN NoFile ELSE sf,
                     history |-> IF hf.kind = "dict" /\ ~import_fails(hf)
                                 THEN NoFile ELSE hf]]

-----------------------------------------------------------------------------
(* The configuration: Config (src/app/utils/config.py).                    *)

position_map(b, c, v) ==
    JMap(<<
        << <<"b", "o", "o", "k", "_", "i", "n", "d", "e", "x">>, JInt(b) >>,
        << <<"c", "h", "a", "p", "t", "e", "r", "_", "i", "n", "d", "e", "x">>, JInt(c) >>,
        << <<"v", "e", "r", "s", "e", "_", "i", "n", "d", "e", "x">>, JInt(v) >> >>)

DEFAULT_SETTINGS ==
    [k \in {"bible_version", "reading_mode", "word_speed", "last_position",
            "music_folder", "music_volume", "music_enabled", "font_size",
            "night_mode", "fullscreen"} |->
        CASE k = "bible_version" -> JNull
          [] k = "reading_mode" -> JStr(<<"c", "h", "u", "n", "k", "s">>)
          [] k = "word_speed" -> JFloat(10)
          [] k = "last_position" -> position_map(0, 0, 0)
          [] k = "music_folder" -> JNull
          [] k = "music_volume" -> JFloat(5)
          [] k = "music_enabled" -> JBool(TRUE)
          [] k = "font_size" -> JInt(32)
          [] k = "night_mode" -> JBool(FALSE)
          [] k = "fullscreen" -> JBool(FALSE)]

(* a number in tenths, to compare an int and a float *)
tenths(value) == IF value.t = "float" THEN value.n ELSE 10 * value.n

(* Python's min(a, b) and max(a, b): the second argument only when it is   *)
(* strictly smaller (larger)                                               *)
py_min(a, b) == IF tenths(b) < tenths(a) THEN b ELSE a

py_max(a, b) == IF tenths(b) > tenths(a) THEN b ELSE a

(* what the setter of a property stores for an assigned value *)
unclamped(key, value) == value

setter_value(key, value) ==
    CASE key = "word_speed" -> py_max(JFloat(1), py_min(JFloat(50), value))
      [] key = "music_volume" -> py_max(JFloat(0), py_min(JFloat(10), value))
      [] key = "font_size" -> py_max(JInt(16), py_min(JInt(72), value))
      [] OTHER -> value

(* dict[key] = value on the cache *)
cache_set(c, key, value) ==
    [k \in DOMAIN c \cup {key} |-> IF k = key THEN value ELSE c[k]]

(* the getter of a property: self._cache.get(key, default) *)
property_default(key) ==
    IF key \in {"bible_version", "music_folder"} THEN JNull
    ELSE DEFAULT_SETTINGS[key]

property_get(c, key) == IF key \in DOMAIN c THEN c[key] ELSE property_default(key)

(* Config.load after the migration, on the rows it left *)
load_cache(rows) ==
    IF DOMAIN rows = {} THEN DEFAULT_SETTINGS
    ELSE [k \in DOMAIN DEFAULT_SETTINGS \cup DOMAIN rows |->
            IF k \in DOMAIN rows THEN get_all_settings(rows)[k]
            ELSE DEFAULT_SETTINGS[k]]

load_rows(rows) ==
    IF DOMAIN rows = {}
    THEN [k \in DOMAIN DEFAULT_SETTINGS |-> json_dumps(DEFAULT_SETTINGS[k])]
    ELSE rows

(* Config.save: set_setting of every key of the cache *)
save_rows(rows, c) ==
    [k \in DOMAIN rows \cup DOMAIN c |->
        IF k \in DOMAIN c THEN json_dumps(c[k]) ELSE rows[k]]

-----------------------------------------------------------------------------
(* The store of settings and the configuration as a state machine.         *)
(* config_call records the last call: its operation, key, the value        *)
(* passed, the value Config held after an assignment, what the call        *)
(* returned, whether load imported a legacy settings file, how far the     *)
(* sequence assign, save, new instance, load has come (stage 1..4), and    *)
(* whether migrate_from_json has run on this store.                        *)

Call(op, key, value, held, ret, imported, stage) ==
    [op |-> op, key |-> key, value |-> value, held |-> held, ret |-> ret,
     imported |-> imported, stage |-> stage, ran |-> config_call.ran]

IdleCall ==
    [op |-> "none", key |-> "", value |-> JNull, held |-> JNull, ret |-> JNull,
     imported |-> FALSE, stage |-> 0, ran |-> FALSE]

Missing == JStr(<<"?">>)

JsonValues ==
    {JNull, JBool(TRUE), JBool(FALSE),
     JInt(0), JInt(-1), JInt(32), JFloat(5), JFloat(10), JFloat(-1),
     JStr(<<>>), JStr(<<"a", " ", "b">>), JStr(<<"\"">>), JStr(<<"\\", "n">>),
     JStr(<<"\n">>), JStr(<<"1">>), JStr(<<"t", "r", "u", "e">>),
     JStr(<<"{", "}">>),
     JMap(<<>>), JMap(<< << <<"a">>, JInt(1) >> >>),
     JMap(<< << <<"a">>, JMap(<< << <<"b", "\"">>, JStr(<<"x">>) >> >>) >>,
             << <<"c">>, JFloat(5) >> >>)}

StoreKeys == {"theme"}

PropertyKeys == {"font_size", "music_folder"}

PropertyInputs(key) ==
    CASE key = "font_size" -> {JInt(20), JInt(100)}
      [] key = "music_folder" -> {JStr(<<"m", "\"">>)}

LegacySettings == {NoFile, BadFile, SettingsFile([k \in {"font_size"} |-> JInt(20)])}

InitSettings ==
    /\ BibleIdle
    /\ StoreEmpty
    /\ LoadIdle
    /\ MusicIdle
    /\ AppIdle
    /\ settings = <<>>
    /\ cache = <<>>
    /\ legacy \in {[settings |-> f, history |-> NoFile] : f \in LegacySettings}
    /\ config_call = IdleCall

config_frame == <<bible_vars, clock, session_start, marked, hist_call,
                  favorites_vars, load_vars, music_vars, app_vars>>

history_rows == <<chapters_read, total_verses_read, total_time_reading>>

SetSetting ==
    \E key \in StoreKeys, value \in JsonValues :
        /\ settings' = set_setting(settings, key, value)
        /\ config_call' = Call("set_setting", key, value, value, JNull, FALSE, 0)
        /\ UNCHANGED <<config_frame, history_rows, cache, legacy>>

GetSetting ==
    \E key \in StoreKeys :
        /\ config_call' = Call("get_setting", key, JNull, JNull,
                               get_setting(settings, key, Missing), FALSE, 0)
        /\ UNCHANGED <<config_frame, history_rows, settings, cache, legacy>>

(* Config(config_dir, database): a new instance on the same store *)
ConfigNew ==
    /\ cache' = <<>>
    /\ config_call' = [config_call EXCEPT !.op = "new", !.ret = JNull,
                            !.stage = IF @ = 2 THEN 3 ELSE 0]
    /\ UNCHANGED <<config_frame, history_rows, settings, legacy>>

ConfigLoad ==
    LET m == migrate_from_json
    IN  /\ legacy' = m.legacy
        /\ chapters_read' = m.chapters_read
        /\ total_verses_read' = m.total_verses_read
        /\ total_time_reading' = m.total_time_reading
        /\ settings' = load_rows(m.settings)
        /\ cache' = load_cache(m.settings)
        /\ config_call' = [config_call EXCEPT !.op = "load",
                                !.ret = JBool(DOMAIN m.settings # {}),
                                !.imported = legacy.settings.kind = "dict",
                                !.ran = TRUE,
                                !.stage = IF @ = 3 THEN 4 ELSE 0]
        /\ UNCHANGED config_frame

ConfigSave ==
    /\ settings' = save_rows(settings, cache)
    /\ config_call' = [config_call EXCEPT !.op = "save", !.ret = JBool(TRUE),
                            !.stage = IF @ = 1 THEN 2 ELSE 0]
    /\ UNCHANGED <<config_frame, history_rows, cache, legacy>>

(* config.<property> = value *)
ConfigAssign ==
    \E key \in PropertyKeys :
        \E value \in PropertyInputs(key) :
            /\ cache' = cache_set(cache, key, setter_value(key, value))
            /\ config_call' = Call("assign", key, value, cache'[key], JNull,
                                   FALSE, 1)
            /\ UNCHANGED <<config_frame, history_rows, settings, legacy>>

NextSettings ==
    \/ SetSetting
    \/ GetSetting
    \/ ConfigNew
    \/ ConfigLoad
    \/ ConfigSave
    \/ ConfigAssign

SpecSettings == InitSettings /\ [][NextSettings]_vars

(* whether a value lies within the bounds of a clamped property *)
WithinBounds(key, value) ==
    CASE key = "font_size" -> 160 <= tenths(value) /\ tenths(value) <= 720
      [] key = "word_speed" -> 1 <= tenths(value) /\ tenths(value) <= 50
      [] key = "music_volume" -> 0 <= tenths(value) /\ tenths(value) <= 10
      [] OTHER -> TRUE

-----------------------------------------------------------------------------
(* The import of the legacy files over the life of a store: loads of the   *)
(* configuration between changes of settings, marks and counters.          *)

LegacyHistory ==
    {NoFile, BadFile,
     HistoryFile(<<ChapterEntry("gn", 0)>>, 1, 2),
     HistoryFile(<<ChapterEntry("gn", 0), NotAnObject>>, 1, 2)}

InitMigrate ==
    /\ BibleIdle
    /\ StoreEmpty
    /\ LoadIdle
    /\ MusicIdle
    /\ AppIdle
    /\ settings = <<>>
    /\ cache = <<>>
    /\ legacy \in {[settings |-> f, history |-> h] :
                        f \in LegacySettings, h \in LegacyHistory}
    /\ config_call = IdleCall

NextMigrate ==
    \/ ConfigLoad
    \/ ConfigAssign
    \/ ConfigSave
    \/ MarkChapterRead
    \/ ClearHistory

SpecMigrate == InitMigrate /\ [][NextMigrate]_vars

(* what a load leaves alone when its migration is a no-op: every setting   *)
(* of the store, the chapter marks and the counters                        *)
LoadKeepsStore ==
    /\ \A k \in DOMAIN settings : k \in DOMAIN settings' /\ settings'[k] = settings[k]
    /\ chapters_read' = chapters_read
    /\ total_verses_read' = total_verses_read
    /\ total_time_reading' = total_time_reading

(* C28: migrate_from_json is a no-op when no legacy file exists, and once  *)
(* it has run, a later run (Config.load runs it on every load) changes no  *)
(* setting, chapter mark or counter.                                       *)
C28_MigrationRunsOnce ==
    [][ConfigLoad /\ (legacy = NoLegacy \/ config_call.ran) => LoadKeepsStore]_vars

(* The same for legacy files whose import does not fail half way: absent,  *)
(* unparseable, or well formed.                                            *)
C28_WellFormedRunsOnce ==
    [][ConfigLoad /\ (legacy = NoLegacy \/ config_call.ran)
            /\ ~(legacy.history.kind = "dict" /\ import_fails(legacy.history))
        => LoadKeepsStore]_vars

-----------------------------------------------------------------------------
(* Loading a translation: Bible.load (src/app/utils/bible.py).  data_dir   *)
(* gives, for a version, the file <version>.json of the data directory:    *)
(* unparseable, or the JSON value it holds; a version outside its domain   *)
(* has no file.                                                            *)

Unparseable == [kind |-> "unparseable", content |-> <<>>]

JsonFile(content) == [kind |-> "json", content |-> content]

Words2 == <<"a", " ", "b">>

(* two books of one chapter of one verse *)
CorpusTwoBooks ==
    << [abbrev |-> <<"g", "n">>, chapters |-> << <<Words2>> >>],
       [abbrev |-> <<"j", "o">>, chapters |-> << <<FillerVerse>> >>] >>

(* one book of two chapters, of two verses and of one *)
CorpusOneBook ==
    << [abbrev |-> <<"g", "n">>,
        chapters |-> << <<FillerVerse, Words2>>, <<FillerVerse>> >>] >>

Versions == {"acf", "nvi"}

FileStates == {Unparseable, JsonFile(CorpusTwoBooks), JsonFile(CorpusOneBook)}

DataDirs ==
    UNION {[present -> FileStates] : present \in SUBSET Versions}

(* Bible.load(version): what it returns and the books and version after *)
load_clearing(requested) ==
    IF requested \in DOMAIN data_dir /\ data_dir[requested].kind = "json"
    THEN [ret |-> TRUE, books |-> data_dir[requested].content,
          version |-> requested]
    ELSE [ret |-> FALSE, books |-> <<>>, version |-> ""]

load(requested) ==
    IF requested \in DOMAIN data_dir /\ data_dir[requested].kind = "json"
    THEN [ret |-> TRUE, books |-> data_dir[requested].content,
          version |-> requested]
    ELSE [ret |-> FALSE, books |-> books, version |-> version]

LoadInputs == Versions \cup {"kjv"}

InitLoad ==
    /\ BibleIdle
    /\ StoreEmpty
    /\ MusicIdle
    /\ ConfigIdle
    /\ AppIdle
    /\ data_dir \in DataDirs
    /\ load_call = NoCall

Load ==
    \E requested \in LoadInputs :
        /\ books' = load(requested).books
        /\ version' = load(requested).version
        /\ load_call' = [op |-> "load", arg |-> requested,
                         ret |-> load(requested).ret,
                         loaded |-> books # <<>>]
        /\ nav_call' = IF load(requested).ret THEN NoCall ELSE nav_call
        /\ UNCHANGED <<find_call, clock, history_vars, favorites_vars,
                       data_dir, music_vars, config_vars, app_vars>>

NextLoad ==
    \/ Load
    \/ NextPosition
    \/ PreviousPosition

SpecLoad == InitLoad /\ [][NextLoad]_vars

(* C21: a Bible.load of a version whose file is missing or unparseable     *)
(* returns False and leaves books and version as they were; a load that    *)
(* succeeds returns True and sets books to the content of the file and     *)
(* version to the version asked for.                                       *)
C21_FailedLoadChangesNothing ==
    [][\A requested \in LoadInputs :
        Load /\ load_call'.arg = requested =>
            IF requested \notin DOMAIN data_dir
                    \/ data_dir[requested].kind = "unparseable"
            THEN /\ load_call'.ret = FALSE
                 /\ books' = books
                 /\ version' = version
            ELSE /\ load_call'.ret = TRUE
                 /\ books' = data_dir[requested].content
                 /\ version' = requested]_vars

(* A load has failed with a corpus loaded, the corpus is still the one of  *)
(* the version loaded before, and the navigator has since stepped in it.   *)
C21_Witness ==
    /\ load_call.op = "load"
    /\ load_call.ret = FALSE
    /\ load_call.loaded
    /\ version = "acf"
    /\ books = data_dir["acf"].content
    /\ nav_call.op = "next"
    /\ ValidPosition(Triple(nav_call.ret))

-----------------------------------------------------------------------------
(* The reader screen: ReaderScreen (src/app/screens/reader.py).  reader is *)
(* the screen's fields; pending is the set of callbacks scheduled with     *)
(* after() that have neither fired nor been cancelled, each with the id    *)
(* after() returned.  Tk never returns an id twice; the model takes the    *)
(* least id that is neither pending nor held in a field of the reader.     *)

CHUNKS == JStr(<<"c", "h", "u", "n", "k", "s">>)

WORD == JStr(<<"w", "o", "r", "d">>)

(* ReaderScreen.__init__ *)
new_reader ==
    [position |-> <<0, 0, 0>>, word_index |-> 0, is_playing |-> FALSE,
     timer_id |-> None, music_check_id |-> None,
     reading_mode |-> property_get(cache, "reading_mode"),
     word_speed |-> property_get(cache, "word_speed"),
     font_size |-> property_get(cache, "font_size")]

(* len(verse.split()) *)
RECURSIVE word_count(_)
word_count(text) ==
    IF text = <<>> THEN 0
    ELSE IF IsSpace(Head(text)) THEN word_count(Tail(text))
    ELSE IF Len(text) = 1 \/ IsSpace(text[2]) THEN 1 + word_count(Tail(text))
    ELSE word_count(Tail(text))

handles(r) ==
    {h[1] : h \in {r.timer_id, r.music_check_id} \ {None}}

(* the id of a new after() *)
after_id(r, P) ==
    LET used == {p.id : p \in P} \cup handles(r)
    IN  CHOOSE n \in 0..Cardinality(used) :
            n \notin used /\ \A m \in 0..(n - 1) : m \in used

(* after_cancel(handle) *)
after_cancel(P, handle) ==
    IF handle = None THEN P ELSE {p \in P : p.id # handle[1]}

Screen(r, P) == [reader |-> r, pending |-> P]

(* ReaderScreen._schedule_next *)
schedule_next_always(r, P) ==
    Screen([r EXCEPT !.timer_id = Some(after_id(r, P))],
           P \cup {[id |-> after_id(r, P),
                    callback |-> IF r.reading_mode = CHUNKS
                                 THEN "advance_verse" ELSE "advance_word"]})

schedule_next(r, P) ==
    IF ~r.is_playing THEN Screen(r, P) ELSE schedule_next_always(r, P)

(* ReaderScreen._start_timer and _stop_timer *)
start_timer(r, P) == schedule_next([r EXCEPT !.is_playing = TRUE], P)

stop_timer_keep(r, P) ==
    Screen([r EXCEPT !.is_playing = FALSE, !.timer_id = None], P)

stop_timer(r, P) ==
    Screen([r EXCEPT !.is_playing = FALSE, !.timer_id = None],
           after_cancel(P, r.timer_id))

(* ReaderScreen._start_music_check and _stop_music_check *)
start_music_check(r, P) ==
    LET Q == after_cancel(P, r.music_check_id)
    IN  Screen([r EXCEPT !.music_check_id = Some(after_id(r, Q))],
               Q \cup {[id |-> after_id(r, Q), callback |-> "check"]})

stop_music_check(r, P) ==
    Screen([r EXCEPT !.music_check_id = None],
           after_cancel(P, r.music_check_id))

(* the dict stored as last_position and the position it gives back *)
map_get(value, key, default) ==
    IF \E k \in 1..Len(value.m) : value.m[k][1] = key
    THEN value.m[CHOOSE k \in 1..Len(value.m) : value.m[k][1] = key][2].n
    ELSE default

position_of(value) ==
    <<map_get(value, <<"b", "o", "o", "k", "_", "i", "n", "d", "e", "x">>, 0),
      map_get(value, <<"c", "h", "a", "p", "t", "e", "r", "_", "i", "n", "d", "e", "x">>, 0),
      map_get(value, <<"v", "e", "r", "s", "e", "_", "i", "n", "d", "e", "x">>, 0)>>

(* the cache after config.last_position = {...} for a position *)
with_last_position(c, pos) ==
    cache_set(c, "last_position", position_map(pos[1], pos[2], pos[3]))

-----------------------------------------------------------------------------
(* The handlers of the reader screen as actions.  Each leaves alone what   *)
(* reader_frame names; marks made by the reader are rows of chapters_read  *)
(* keyed by the abbreviation of the corpus.                                *)

reader_frame == <<bible_vars, clock, session_start, total_time_reading,
                  marked, hist_call, favorites_vars, load_vars, legacy,
                  config_call, playlist, shuffle, music_files, music_call,
                  screen>>

InReader == screen = "reader" /\ reader # None

crossing(pos, nxt) == nxt[2] # pos[2] \/ nxt[1] # pos[1]

(* self.history.mark_chapter_read(book_abbrev, self.chapter_index) when    *)
(* the move leaves the chapter                                             *)
marks_after(pos, nxt) ==
    IF crossing(pos, nxt)
    THEN insert_or_ignore(chapters_read, <<get_book_abbrev(pos[1]), pos[2]>>)
    ELSE chapters_read

(* ReaderScreen._advance_verse on the screen (r, P) *)
AdvanceVerse(r, P) ==
    IF ~r.is_playing
    THEN /\ reader' = Some(r)
         /\ pending' = P
         /\ UNCHANGED <<total_verses_read, chapters_read, cache, settings>>
    ELSE LET pos == r.position
             nxt == get_next_position(pos[1], pos[2], pos[3])
             moved == [r EXCEPT !.position = Triple(nxt), !.word_index = 0]
         IN  /\ total_verses_read < MaxVersesRead
             /\ total_verses_read' = total_verses_read + 1
             /\ IF nxt[4]
                THEN /\ reader' = Some(stop_timer(r, P).reader)
                     /\ pending' = stop_timer(r, P).pending
                     /\ UNCHANGED <<chapters_read, cache, settings>>
                ELSE /\ chapters_read' = marks_after(pos, nxt)
                     /\ cache' = with_last_position(cache, Triple(nxt))
                     /\ settings' = save_rows(settings, cache')
                     /\ reader' = Some(schedule_next(moved, P).reader)
                     /\ pending' = schedule_next(moved, P).pending

(* ReaderScreen._advance_word on the screen (r, P) *)
AdvanceWord(r, P) ==
    IF ~r.is_playing
    THEN /\ reader' = Some(r)
         /\ pending' = P
         /\ UNCHANGED <<total_verses_read, chapters_read, cache, settings>>
    ELSE LET pos == r.position
             stepped == [r EXCEPT !.word_index = @ + 1]
         IN  IF stepped.word_index >= word_count(get_verse(pos[1], pos[2], pos[3]))
             THEN AdvanceVerse(stepped, P)
             ELSE /\ reader' = Some(schedule_next(stepped, P).reader)
                  /\ pending' = schedule_next(stepped, P).pending
                  /\ UNCHANGED <<total_verses_read, chapters_read, cache, settings>>

(* A pending reading-advance callback fires. *)
TimerFires ==
    /\ InReader
    /\ \E p \in pending :
        /\ p.callback # "check"
        /\ IF p.callback = "advance_verse"
           THEN AdvanceVerse(reader[1], pending \ {p})
           ELSE AdvanceWord(reader[1], pending \ {p})
    /\ UNCHANGED <<reader_frame, current_index, music_is_playing, mixer>>

(* MusicPlayer.check_track_ended: the index and the mixer afterwards *)
check_effect ==
    IF is_available /\ music_is_playing /\ ~get_busy /\ playlist # <<>>
    THEN [index |-> next_index, mixer |-> play_current]
    ELSE [index |-> current_index, mixer |-> mixer]

(* The pending track-end poll fires: check() of _start_music_check. *)
MusicCheckFires ==
    /\ InReader
    /\ \E p \in pending :
        /\ p.callback = "check"
        /\ LET r == reader[1]
               P == pending \ {p}
           IN  /\ reader' = Some([r EXCEPT !.music_check_id = Some(after_id(r, P))])
               /\ pending' = P \cup {[id |-> after_id(r, P), callback |-> "check"]}
    /\ current_index' = (IF music_is_playing THEN check_effect.index ELSE current_index)
    /\ mixer' = (IF music_is_playing THEN check_effect.mixer ELSE mixer)
    /\ UNCHANGED <<reader_frame, music_is_playing, total_verses_read,
                   chapters_read, cache, settings>>

(* ReaderScreen._toggle_play *)
TogglePlay ==
    /\ InReader
    /\ LET r == reader[1]
           S == IF r.is_playing THEN stop_timer(r, pending)
                ELSE start_timer(r, pending)
       IN  reader' = Some(S.reader) /\ pending' = S.pending
    /\ UNCHANGED <<reader_frame, current_index, music_is_playing, mixer,
                   total_verses_read, chapters_read, cache, settings>>

(* the screen after "if was_playing: self._start_timer()" *)
restart(was_playing, r, P) ==
    IF was_playing THEN start_timer(r, P) ELSE Screen(r, P)

(* ReaderScreen._next_verse *)
NextVerse ==
    /\ InReader
    /\ LET r == reader[1]
           pos == r.position
           stopped == stop_timer(r, pending)
           nxt == get_next_position(pos[1], pos[2], pos[3])
           moved == [stopped.reader EXCEPT !.position = Triple(nxt),
                                           !.word_index = 0]
       IN  IF ~nxt[4]
           THEN /\ chapters_read' = marks_after(pos, nxt)
                /\ cache' = with_last_position(cache, Triple(nxt))
                /\ settings' = save_rows(settings, cache')
                /\ reader' = Some(restart(r.is_playing, moved, stopped.pending).reader)
                /\ pending' = restart(r.is_playing, moved, stopped.pending).pending
           ELSE /\ reader' = Some(restart(r.is_playing, stopped.reader,
                                          stopped.pending).reader)
                /\ pending' = restart(r.is_playing, stopped.reader,
                                      stopped.pending).pending
                /\ UNCHANGED <<chapters_read, cache, settings>>
    /\ UNCHANGED <<reader_frame, current_index, music_is_playing, mixer,
                   total_verses_read>>

(* ReaderScreen._previous_verse *)
PreviousVerse ==
    /\ InReader
    /\ LET r == reader[1]
           pos == r.position
           stopped == stop_timer(r, pending)
           prev == get_previous_position(pos[1], pos[2], pos[3])
           moved == [stopped.reader EXCEPT !.position = Triple(prev),
                                           !.word_index = 0]
       IN  IF ~prev[4] \/ Triple(prev) # pos
           THEN /\ cache' = with_last_position(cache, Triple(prev))
                /\ settings' = save_rows(settings, cache')
                /\ reader' = Some(restart(r.is_playing, moved, stopped.pending).reader)
                /\ pending' = restart(r.is_playing, moved, stopped.pending).pending
           ELSE /\ reader' = Some(restart(r.is_playing, stopped.reader,
                                          stopped.pending).reader)
                /\ pending' = restart(r.is_playing, stopped.reader,
                                      stopped.pending).pending
                /\ UNCHANGED <<cache, settings>>
    /\ UNCHANGED <<reader_frame, current_index, music_is_playing, mixer,
                   total_verses_read, chapters_read>>

(* ReaderScreen._toggle_mode *)
ToggleMode ==
    /\ InReader
    /\ LET r == reader[1]
           stopped == stop_timer(r, pending)
           mode == IF r.reading_mode = CHUNKS THEN WORD ELSE CHUNKS
           changed == [stopped.reader EXCEPT !.reading_mode = mode,
                                             !.word_index = 0]
       IN  /\ cache' = cache_set(cache, "reading_mode", mode)
           /\ settings' = save_rows(settings, cache')
           /\ reader' = Some(restart(r.is_playing, changed, stopped.pending).reader)
           /\ pending' = restart(r.is_playing, changed, stopped.pending).pending
    /\ UNCHANGED <<reader_frame, current_index, music_is_playing, mixer,
                   total_verses_read, chapters_read>>

(* ReaderScreen._toggle_music *)
ToggleMusic ==
    /\ InReader
    /\ IF ~is_available \/ playlist = <<>>
       THEN UNCHANGED <<reader, pending, music_is_playing, mixer>>
       ELSE IF music_is_playing
       THEN /\ music_is_playing' = pause_effect.is_playing
            /\ mixer' = pause_effect.mixer
            /\ UNCHANGED <<reader, pending>>
       ELSE /\ music_is_playing' = play_effect.is_playing
            /\ mixer' = play_effect.mixer
            /\ reader' = Some(start_music_check(reader[1], pending).reader)
            /\ pending' = start_music_check(reader[1], pending).pending
    /\ UNCHANGED <<reader_frame, current_index, total_verses_read,
                   chapters_read, cache, settings>>

(* ReaderScreen._next_track and _prev_track *)
ReaderNextTrack ==
    /\ InReader
    /\ IF playlist # <<>>
       THEN /\ current_index' = next_index
            /\ mixer' = IF music_is_playing THEN play_current ELSE mixer
       ELSE UNCHANGED <<current_index, mixer>>
    /\ UNCHANGED <<reader_frame, reader, pending, music_is_playing,
                   total_verses_read, chapters_read, cache, settings>>

ReaderPrevTrack ==
    /\ InReader
    /\ IF playlist # <<>>
       THEN /\ current_index' = previous_index
            /\ mixer' = IF music_is_playing THEN play_current ELSE mixer
       ELSE UNCHANGED <<current_index, mixer>>
    /\ UNCHANGED <<reader_frame, reader, pending, music_is_playing,
                   total_verses_read, chapters_read, cache, settings>>

(* ReaderScreen.cleanup, and the first statements of _go_to_menu *)
cleanup(r, P) ==
    stop_music_check(stop_timer(r, P).reader, stop_timer(r, P).pending)

-----------------------------------------------------------------------------
(* The application: BibliaApp (src/app/app.py).  screen names the current  *)
(* screen; "closed" is the application after _on_close.                    *)

VersionChars(v) == IF v = "acf" THEN <<"a", "c", "f">> ELSE <<"n", "v", "i">>

OtherScreens == {"selector", "search", "favorites", "dashboard"}

(* History.end_session: the persisted time and the session afterwards *)
end_session_skipped ==
    [total |-> total_time_reading, session |-> session_start]

end_session ==
    IF session_start # None
    THEN [total |-> total_time_reading + elapsed, session |-> None]
    ELSE [total |-> total_time_reading, session |-> session_start]

(* BibliaApp._start_reading followed by ReaderScreen.start_reading *)
StartReading(pos) ==
    LET placed == [new_reader EXCEPT !.position = pos]
        timed == start_timer(placed, {})
        polled == IF playlist # <<>>
                  THEN start_music_check(timed.reader, timed.pending)
                  ELSE timed
    IN  /\ session_start' = Some(time_time)
        /\ reader' = Some(polled.reader)
        /\ pending' = polled.pending
        /\ music_is_playing' = (IF playlist # <<>> THEN play_effect.is_playing
                                ELSE music_is_playing)
        /\ mixer' = (IF playlist # <<>> THEN play_effect.mixer ELSE mixer)
        /\ screen' = "reader"
        /\ UNCHANGED <<bible_vars, clock, chapters_read, total_verses_read,
                       total_time_reading, marked, hist_call, favorites_vars,
                       load_vars, config_vars, playlist, current_index,
                       shuffle, music_files, music_call>>

(* BibliaApp._on_select_version *)
OnSelectVersion ==
    /\ screen = "welcome"
    /\ \E requested \in Versions :
        /\ books' = load(requested).books
        /\ version' = load(requested).version
        /\ IF load(requested).ret
           THEN /\ cache' = cache_set(cache, "bible_version",
                                      JStr(VersionChars(requested)))
                /\ settings' = save_rows(settings, cache')
                /\ screen' = "menu"
           ELSE UNCHANGED <<cache, settings, screen>>
    /\ UNCHANGED <<nav_call, find_call, clock, history_vars, favorites_vars,
                   load_vars, music_vars, legacy, config_call, reader, pending>>

app_frame == <<bible_vars, clock, history_vars, favorites_vars, load_vars,
               music_vars, config_vars, reader, pending>>

(* change_version of the menu: BibliaApp._show_welcome *)
ShowWelcome ==
    /\ screen = "menu"
    /\ screen' = "welcome"
    /\ UNCHANGED app_frame

(* BibliaApp._show_selector, _show_search, _show_favorites, _show_dashboard *)
ShowScreen ==
    /\ screen = "menu"
    /\ screen' \in OtherScreens
    /\ UNCHANGED app_frame

(* the back button of those screens: BibliaApp._show_menu *)
ShowMenu ==
    /\ screen \in OtherScreens
    /\ screen' = "menu"
    /\ UNCHANGED app_frame

(* BibliaApp._continue_reading *)
ContinueReading ==
    /\ screen = "menu"
    /\ StartReading(position_of(property_get(cache, "last_position")))

(* BibliaApp._on_select_chapter, for a chapter the selector shows *)
OnSelectChapter ==
    /\ screen = "selector"
    /\ \E b \in 0..(Len(books) - 1) :
        \E c \in 0..(get_chapter_count(b) - 1) :
            StartReading(<<b, c, 0>>)

(* BibliaApp._on_search_select, for a verse the search found *)
OnSearchSelect ==
    /\ screen = "search"
    /\ \E pos \in ValidPositions : StartReading(pos)

(* BibliaApp._on_favorite_select, for a favorite of the store *)
OnFavoriteSelect ==
    /\ screen = "favorites"
    /\ \E row \in favorites :
        StartReading(<<row.book_index, row.chapter_index, row.verse_index>>)

(* DashboardScreen._clear_history *)
DashboardClear ==
    /\ screen = "dashboard"
    /\ chapters_read' = {}
    /\ total_verses_read' = cleared_stats.total_verses_read
    /\ total_time_reading' = cleared_stats.total_time_reading
    /\ session_start' = None
    /\ UNCHANGED <<bible_vars, clock, marked, hist_call, favorites_vars,
                   rest_vars>>

(* ReaderScreen._go_to_menu, with BibliaApp._on_exit_reader it calls *)
GoToMenu ==
    /\ InReader
    /\ end_session.total \in TimeValues
    /\ total_time_reading' = end_session.total
    /\ session_start' = end_session.session
    /\ music_is_playing' = (IF music_is_playing THEN stop_effect.is_playing
                            ELSE music_is_playing)
    /\ mixer' = (IF music_is_playing THEN stop_effect.mixer ELSE mixer)
    /\ pending' = cleanup(reader[1], pending).pending
    /\ reader' = None
    /\ screen' = "menu"
    /\ UNCHANGED <<bible_vars, clock, chapters_read, total_verses_read, marked,
                   hist_call, favorites_vars, load_vars, config_vars, playlist,
                   current_index, shuffle, music_files, music_call>>

(* BibliaApp._on_close: the window is closed on any screen *)
OnClose ==
    /\ screen \notin {"none", "closed"}
    /\ end_session.total \in TimeValues
    /\ total_time_reading' = end_session.total
    /\ session_start' = end_session.session
    /\ music_is_playing' = stop_effect.is_playing
    /\ mixer' = (IF is_available THEN "none" ELSE mixer)
    /\ settings' = save_rows(settings, cache)
    /\ reader' = None
    /\ pending' = {}
    /\ screen' = "closed"
    /\ UNCHANGED <<bible_vars, clock, chapters_read, total_verses_read, marked,
                   hist_call, favorites_vars, load_vars, cache, legacy,
                   config_call, playlist, current_index, shuffle, music_files,
                   music_call>>

(* A favorite the store holds from an earlier run. *)
StoredFavorite ==
    [id |-> 1, book_index |-> 1, chapter_index |-> 0, verse_index |-> 0,
     verse_text |-> FillerVerse, reference |-> <<"J", "o", " ", "1", ":", "1">>,
     note |-> None, created_at |-> 0]

(* The application after BibliaApp.__init__ on a first run: the default    *)
(* settings stored, no translation chosen, the welcome screen shown.       *)
AppStarted ==
    /\ BibleIdle
    /\ clock = 0
    /\ chapters_read = {}
    /\ total_verses_read = 0
    /\ total_time_reading = 0
    /\ session_start = None
    /\ marked = <<>>
    /\ hist_call = NoCall
    /\ fav_call = NoCall
    /\ load_call = NoCall
    /\ settings = load_rows(<<>>)
    /\ cache = load_cache(<<>>)
    /\ legacy = NoLegacy
    /\ config_call = IdleCall
    /\ current_index = 0
    /\ shuffle = TRUE
    /\ music_is_playing = FALSE
    /\ music_call = NoCall
    /\ screen = "welcome"
    /\ reader = None
    /\ pending = {}

AppDataDirs ==
    {d \in DataDirs :
        /\ DOMAIN d = Versions
        /\ d["acf"] = JsonFile(CorpusTwoBooks)
        /\ d["nvi"] \in {JsonFile(CorpusOneBook), Unparseable}}

InitApp ==
    /\ AppStarted
    /\ data_dir \in AppDataDirs
    /\ favorites = {StoredFavorite}
    /\ favorites_seq = 1
    /\ mixer = "idle"
    /\ music_files = <<>>
    /\ playlist = <<>>

NextApp ==
    \/ Tick
    \/ OnSelectVersion
    \/ ShowWelcome
    \/ ShowScreen
    \/ ShowMenu
    \/ ContinueReading
    \/ OnSelectChapter
    \/ OnSearchSelect
    \/ OnFavoriteSelect
    \/ DashboardClear
    \/ TimerFires
    \/ TogglePlay
    \/ NextVerse
    \/ PreviousVerse
    \/ ToggleMode
    \/ GoToMenu
    \/ OnClose

SpecApp == InitApp /\ [][NextApp]_vars

(* C25: the position of the reader is always a valid position of the       *)
(* corpus that is loaded, whatever translation was selected or changed     *)
(* to and however the reader was entered and moved.                        *)
C25_ReaderPositionValid ==
    reader # None => ValidPosition(reader[1].position)

(* C26: whenever the user leaves the reader for the menu, the stored       *)
(* last_position is the position the reader was showing, in the cache of   *)
(* Config and in the settings table.                                       *)
C26_LeavingStoresPosition ==
    [][GoToMenu =>
        /\ position_of(property_get(cache', "last_position")) = reader[1].position
        /\ position_of(get_setting(settings', "last_position", JNull))
                = reader[1].position]_vars

(* The reader shows the last verse of a chapter of the corpus. *)
AtLastVerseOfChapter ==
    /\ reader # None
    /\ ValidPosition(reader[1].position)
    /\ reader[1].position[3] + 1
            = get_verse_count(reader[1].position[1], reader[1].position[2])

(* C27: whenever the reader auto-advances past the last verse of a         *)
(* chapter (the timer fires and the verse is counted as read), that        *)
(* chapter's (book_abbrev, chapter_index) is in the chapters-read set      *)
(* afterwards; the final chapter of the corpus is no exception.            *)
C27_AutoAdvanceMarksChapter ==
    [][TimerFires /\ AtLastVerseOfChapter
            /\ total_verses_read' = total_verses_read + 1 =>
        <<get_book_abbrev(reader[1].position[1]), reader[1].position[2]>>
            \in chapters_read']_vars

(* The same for every chapter but the final one of the corpus. *)
C27_MarksChapterBeforeTheLast ==
    [][TimerFires /\ AtLastVerseOfChapter
            /\ total_verses_read' = total_verses_read + 1
            /\ ~get_next_position(reader[1].position[1], reader[1].position[2],
                                  reader[1].position[3])[4] =>
        <<get_book_abbrev(reader[1].position[1]), reader[1].position[2]>>
            \in chapters_read']_vars

(* C29: a reading session is open exactly while the reader is the current  *)
(* screen; entering the reader opens one at the time of entry, leaving it  *)
(* for the menu and closing the window end it and credit its whole seconds *)
(* once, and on every other screen no session is open, so that the         *)
(* dashboard's clear_history never discards one.                           *)
C29_SessionOpenExactlyInReader ==
    /\ []((screen = "reader") <=> is_session_active)
    /\ []((screen = "reader") <=> (reader # None))
    /\ [][screen # "reader" /\ screen' = "reader" =>
            ~is_session_active /\ session_start' = Some(time_time)]_vars
    /\ [][screen = "reader" /\ screen' # "reader" =>
            /\ screen' \in {"menu", "closed"}
            /\ session_start' = None
            /\ total_time_reading' = total_time_reading + elapsed]_vars
    /\ [][screen # "reader" /\ screen' # "reader" /\ ~DashboardClear =>
            total_time_reading' = total_time_reading]_vars
    /\ [][DashboardClear => ~is_session_active]_vars

(* The reader was left for the menu after a second of reading, which the   *)
(* session has credited.                                                   *)
C29_Witness ==
    /\ screen = "menu"
    /\ ~is_session_active
    /\ total_time_reading = 1
    /\ property_get(cache, "bible_version") = JStr(<<"a", "c", "f">>)

-----------------------------------------------------------------------------
(* The reader screen on its own: the application in the menu with a        *)
(* translation loaded, with or without a mixer and with or without audio   *)
(* files in music/.  Every handler of the screen and every firing of a     *)
(* pending callback is a step; the mixer may finish a track at any time.   *)

ReaderListings ==
    {<<>>, <<[name |-> "a", ext |-> ".mp3"], [name |-> "c", ext |-> ".ogg"]>>}

InMenu ==
    /\ books = CorpusOneBook
    /\ version = "nvi"
    /\ nav_call = NoCall
    /\ find_call = NoCall
    /\ data_dir = [v \in {"nvi"} |-> JsonFile(CorpusOneBook)]
    /\ load_call = NoCall
    /\ StoreEmpty
    /\ cache = cache_set(load_cache(<<>>), "bible_version",
                         JStr(VersionChars("nvi")))
    /\ settings = save_rows(load_rows(<<>>), cache)
    /\ legacy = NoLegacy
    /\ config_call = IdleCall
    /\ current_index = 0
    /\ shuffle = TRUE
    /\ music_is_playing = FALSE
    /\ music_call = NoCall
    /\ screen = "menu"
    /\ reader = None
    /\ pending = {}

InitReader ==
    /\ InMenu
    /\ mixer \in {"none", "idle"}
    /\ music_files \in ReaderListings
    /\ playlist \in load_playlist

NextReader ==
    \/ ContinueReading
    \/ ShowScreen
    \/ ShowMenu
    \/ OnSelectChapter
    \/ TimerFires
    \/ MusicCheckFires
    \/ TrackEnds
    \/ TogglePlay
    \/ NextVerse
    \/ PreviousVerse
    \/ ToggleMode
    \/ ToggleMusic
    \/ ReaderNextTrack
    \/ ReaderPrevTrack
    \/ GoToMenu

SpecReader == InitReader /\ [][NextReader]_vars

advances == {p \in pending : p.callback # "check"}

polls == {p \in pending : p.callback = "check"}

(* C24: at any time at most one reading-advance callback and at most one   *)
(* track-end poll are pending; a reading-advance callback is pending only  *)
(* while is_playing is True; once the reader is torn down no callback of   *)
(* either kind is pending.                                                 *)
C24_OnePendingCallbackPerConcern ==
    /\ Cardinality(advances) <= 1
    /\ Cardinality(polls) <= 1
    /\ advances # {} => reader # None /\ reader[1].is_playing
    /\ reader = None => pending = {}

(* The reader was opened with music, its timer fired, and it was left for  *)
(* the menu: nothing is pending.                                           *)
C24_Witness ==
    /\ screen = "menu"
    /\ reader = None
    /\ pending = {}
    /\ total_verses_read >= 1
    /\ music_is_playing = FALSE
    /\ mixer = "idle"
    /\ playlist # <<>>

-----------------------------------------------------------------------------
(* The clamped properties of Config: font_size, word_speed and             *)
(* music_volume.  They are assigned by the reader's font, speed and volume *)
(* controls and, here, by any caller with any number.  A float is held in  *)
(* tenths, so the steps of 0.1 of the speed controls are exact.            *)

ClampedKeys == {"font_size", "word_speed", "music_volume"}

ClampedInputs(key) ==
    CASE key = "font_size" -> {JInt(10), JInt(100), JInt(40)}
      [] key = "word_speed" -> {JFloat(0), JFloat(100), JFloat(25), JInt(6)}
      [] key = "music_volume" -> {JFloat(-5), JFloat(15), JFloat(7)}

SliderValues == {JFloat(0), JFloat(3), JFloat(10)}

(* value + step for an int or a float value and a step given in tenths *)
plus(value, step) ==
    IF value.t = "int" /\ step % 10 = 0 THEN JInt(value.n + step \div 10)
    ELSE JFloat(tenths(value) + step)

(* config.<key> = value by a caller other than the reader screen, before   *)
(* the reader is opened                                                    *)
Assign(key, value) ==
    /\ screen = "menu"
    /\ cache' = cache_set(cache, key, setter_value(key, value))
    /\ UNCHANGED <<config_frame, history_rows, settings, legacy, config_call>>

AssignClamped ==
    \E key \in ClampedKeys : \E value \in ClampedInputs(key) : Assign(key, value)

clamped_frame == <<bible_vars, clock, history_vars, favorites_vars, load_vars,
                   music_vars, legacy, config_call, screen, pending>>

(* ReaderScreen._apply_font_size for the reader r with its new font_size *)
apply_font_size(r) ==
    /\ reader' = Some(r)
    /\ cache' = cache_set(cache, "font_size",
                          setter_value("font_size", r.font_size))
    /\ settings' = save_rows(settings, cache')
    /\ UNCHANGED clamped_frame

(* ReaderScreen._increase_font and _decrease_font *)
IncreaseFont ==
    /\ InReader
    /\ apply_font_size([reader[1] EXCEPT
            !.font_size = py_min(JInt(72), plus(@, 20))])

DecreaseFont ==
    /\ InReader
    /\ apply_font_size([reader[1] EXCEPT
            !.font_size = py_max(JInt(16), plus(@, -20))])

(* the statements of both speed controls after the new word_speed *)
apply_word_speed(r) ==
    /\ reader' = Some(r)
    /\ cache' = cache_set(cache, "word_speed",
                          setter_value("word_speed", r.word_speed))
    /\ settings' = save_rows(settings, cache')
    /\ UNCHANGED clamped_frame

(* ReaderScreen._increase_speed and _decrease_speed *)
IncreaseSpeed ==
    /\ InReader
    /\ apply_word_speed([reader[1] EXCEPT
            !.word_speed = py_max(JFloat(1), plus(@, -1))])

DecreaseSpeed ==
    /\ InReader
    /\ apply_word_speed([reader[1] EXCEPT
            !.word_speed = py_min(JFloat(50), plus(@, 1))])

(* ReaderScreen._on_volume_change for a value of the slider (0 to 1); the  *)
(* volume of the mixer is not part of the state                            *)
OnVolumeChange ==
    /\ InReader
    /\ \E value \in SliderValues :
        /\ cache' = cache_set(cache, "music_volume",
                              setter_value("music_volume", value))
        /\ settings' = save_rows(settings, cache')
    /\ UNCHANGED <<clamped_frame, reader>>

InitConfig ==
    /\ InMenu
    /\ mixer = "idle"
    /\ music_files = <<>>
    /\ playlist = <<>>

NextConfig ==
    \/ AssignClamped
    \/ ContinueReading
    \/ IncreaseFont
    \/ DecreaseFont
    \/ IncreaseSpeed
    \/ DecreaseSpeed
    \/ OnVolumeChange

SpecConfig == InitConfig /\ [][NextConfig]_vars

(* the nearest number of lo..hi (in tenths) to a number in tenths *)
clamp(lo, hi, n) == IF n < lo THEN lo ELSE IF n > hi THEN hi ELSE n

clamped(key, value) ==
    CASE key = "font_size" -> clamp(160, 720, tenths(value))
      [] key = "word_speed" -> clamp(1, 50, tenths(value))
      [] key = "music_volume" -> clamp(0, 10, tenths(value))

(* C23: an assignment to font_size, word_speed or music_volume stores the  *)
(* value clamped to 16..72, 0.1..5.0 and 0.0..1.0; after any sequence of   *)
(* such assignments, the reader's font and speed controls included, the    *)
(* values Config holds are within those bounds.                            *)
C23_ClampedPropertiesStayInBounds ==
    /\ [](\A key \in ClampedKeys : WithinBounds(key, property_get(cache, key)))
    /\ [][\A key \in ClampedKeys : \A value \in ClampedInputs(key) :
            Assign(key, value) =>
                tenths(property_get(cache', key)) = clamped(key, value)]_vars
    /\ [][IncreaseFont \/ DecreaseFont =>
            tenths(property_get(cache', "font_size"))
                = clamp(160, 720, tenths(reader[1].font_size)
                                    + (IF IncreaseFont THEN 20 ELSE -20))]_vars
    /\ [][IncreaseSpeed \/ DecreaseSpeed =>
            tenths(property_get(cache', "word_speed"))
                = clamp(1, 50, tenths(reader[1].word_speed)
                                 + (IF IncreaseSpeed THEN -1 ELSE 1))]_vars

(* The speed was assigned 2.5 and the volume 0.7 before the reader was     *)
(* opened; the reader's controls slowed the speed to 2.6 and left the font *)
(* at its upper bound, and saved both.                                     *)
C23_Witness ==
    /\ InReader
    /\ reader[1].font_size = JInt(72)
    /\ settings["font_size"] = json_dumps(JInt(72))
    /\ reader[1].word_speed = JFloat(26)
    /\ settings["word_speed"] = json_dumps(JFloat(26))
    /\ property_get(cache, "music_volume") = JFloat(7)

====
